---- MODULE Spec2Model ----
(***************************************************************************)
(* Verification model of the MegaDeviceBridge firmware core:               *)
(*   - RingBuffer + ParallelPortManager (strobe ISR, run loop drain)       *)
(*   - EEPROMStoragePlugin (flat filesystem on the W25Q128 NOR flash)      *)
(* SpecRx is the receiver (ISR interleaved with the run loop);             *)
(* SpecFs is the flash filesystem (single-threaded, synchronous).          *)
(***************************************************************************)
EXTENDS Integers, Sequences, FiniteSets, TLC

(***************************************************************************)
(* Bounds.  The source values are far beyond explicit-state checking, so   *)
(* the sizes are scaled; the algorithms are the source's.                  *)
(***************************************************************************)
\* HardwareConfig.h:57 sets 96; scaled.
RING_BUFFER_SIZE == 2
\* data bytes on the parallel port are 0..MaxByte
MaxByte == 1
\* cap on the strobes handled between two resets of the statistics
MaxStrobes == 4

\* part_010:527 "static uint8_t dataBuffer[1]"
DATA_BUFFER_SIZE == 1

Byte == 0..MaxByte

Min(a, b) == IF a < b THEN a ELSE b

VARIABLES
    \* RingBuffer (part_004:14-18)
    buffer, head, tail, count, overflowFlag,
    \* ParallelPortManager (ParallelPortManager.h:16-31)
    initialized, captureEnabled, bytesReceived, overflowCount, totalInterrupts,
    \* hardware: INT5 attached, BUSY and nACK output pins
    attached, busyPin, ackPin,
    \* task (run loop / API caller) position and the locals of readBytes
    pc, rbRet, maxBytes, bytesRead, dest, tmpCount,
    \* observation bookkeeping (not program state)
    fifo,          \* bytes accepted by write() and not yet popped, in order
    dropped,       \* pushes rejected since the statistics were reset
    strobes,       \* ISR entries since the statistics were reset
    served,        \* ISR entries that found the receiver initialized and enabled
    lastStrobe,    \* "none", or whether the last ISR entry was "served" or "refused"
    isrTrace,      \* pin/queue events of the last ISR run
    drainExpect,   \* fifo when the current readBytes call started
    drainQuiet,    \* no strobe since the current readBytes call started
    surfaced,      \* overflow warnings shown by loop()
    latched        \* a rejected push latched the flag and loop() has not yet consulted it

rxVars == <<buffer, head, tail, count, overflowFlag, initialized, captureEnabled,
            bytesReceived, overflowCount, totalInterrupts, attached, busyPin, ackPin,
            pc, rbRet, maxBytes, bytesRead, dest, tmpCount,
            fifo, dropped, strobes, served, lastStrobe, isrTrace, drainExpect,
            drainQuiet, surfaced, latched>>

\* EEPROMStoragePlugin (EEPROMStoragePlugin.h:46-53) and the flash chip
VARIABLES
    flash,             \* the chip (a medium value between API calls)
    directory,         \* FileEntry directory[MAX_FILES], the RAM mirror
    nextFreeSector, totalFiles, deletedFiles,
    eepromInitialized, \* EEPROMStoragePlugin::initialized
    \* observation bookkeeping (not program state)
    lastRead,          \* name, return value and buffer of a readFile that was the
                       \* last API call
    lastWrite,         \* name and data of the last writeFile, while it returned
                       \* the full size and nothing has modified the filesystem since
    faultsLeft,        \* flash command timeouts still to be injected in this run
    lineage,           \* "format": format succeeded and only writeFile/readFile
                       \* ran since; else "constructed", "loaded" or "other"
    disjointAtMount    \* the valid ACTIVE entries of the directory read by the
                       \* last initialize() had pairwise disjoint extents

fsVars == <<flash, directory, nextFreeSector, totalFiles, deletedFiles,
            eepromInitialized, lastRead, lastWrite, faultsLeft, lineage,
            disjointAtMount>>

\* FileSystemManager (part_008:10-18), SDCardStoragePlugin (part_007:4-8),
\* SerialStoragePlugin (SerialStoragePlugin.cpp:4-10) and their hardware
VARIABLES
    fsmInitialized,     \* FileSystemManager::initialized
    currentStorageType, \* currentStorage is getPluginByType(currentStorageType)
    sdInitialized, cardPresent, writeProtected,
    sdDetectPin, sdWriteProtectPin, \* pin levels, "LOW" or "HIGH"
    sdFiles,            \* content of the card: name -> bytes
    serialInitialized,
    txRoom,             \* Serial.availableForWrite() > 0
    serialOut,          \* lines put on the serial link by the step just taken
                        \* (kept while the host reads them back)
    serialIn,           \* lines waiting on the serial link for receiveFile
    received,           \* bytes and return value of a receiveFile that ran with
                        \* the plugin ready, the lines it was fed, its maxSize,
                        \* and the payload those lines were streamed from
    \* observation bookkeeping (not program state)
    invalidDispatched,  \* the router has handed a plugin a name that fails
                        \* isValidFilename
    lastCall,           \* the router call made last: "initialize", "update",
                        \* "other", or "none" before the first
    lastCopy            \* arguments, source bytes and result of a copyFile that
                        \* was the step just taken, if both plugins were ready,
                        \* the source held the file and the destination had room

rtVars == <<fsmInitialized, currentStorageType, sdInitialized, cardPresent,
            writeProtected, sdDetectPin, sdWriteProtectPin, sdFiles,
            serialInitialized, txRoom, serialOut, serialIn, received,
            invalidDispatched, lastCopy, lastCall>>

\* the counters behind generated file names (part_010:539, part_008:277-283)
VARIABLES
    fileCounter,        \* processParallelPortData's static uint16_t fileCounter
    autoCounter,        \* generateUniqueFilename's static uint16_t counter
    \* observation bookkeeping (not program state)
    generatedNames,     \* the names processParallelPortData has synthesized in
                        \* this run, oldest first
    lastAuto            \* result of the last writeFileAuto: whether a name was
                        \* generated, the name, and the return value

nmVars == <<fileCounter, autoCounter, generatedNames, lastAuto>>

\* a statistics getter in progress (part_010:236-248) and the local state of
\* test_ringbuffer_concurrent_operations (part_012:406-426)
VARIABLES
    snWhich,       \* the counter the getter in progress returns, or "none"
    snLoaded,      \* the bytes of it the getter has loaded so far
    snReg,         \* the four result registers
    rb,            \* the test's RingBufferTest object
    cycle,         \* the test's loop counter
    cyPhase,       \* "write": producer loop, "read": consumer loop, "done"
    cyI,           \* the inner loop counter
    \* observation bookkeeping (not program state)
    snFirst,       \* the counter's value when the getter was entered
    snResult,      \* the last getter result, with the values the counter held
    writeFails,    \* writes of the test that returned false
    readFails,     \* reads of the test that returned false
    firstFail      \* the cycle of the first failed write, or -1

snVars == <<snWhich, snLoaded, snReg, snFirst, snResult>>
cyVars == <<rb, cycle, cyPhase, cyI, writeFails, readFails, firstFail>>
xtVars == <<snVars, cyVars>>

vars == <<rxVars, fsVars, rtVars, nmVars, xtVars>>

ringVars == <<buffer, head, tail, count, overflowFlag>>
statVars == <<bytesReceived, overflowCount, totalInterrupts>>
pinVars == <<busyPin, ackPin>>
rbLocals == <<rbRet, maxBytes, bytesRead, dest, tmpCount>>
ghostIsr == <<dropped, strobes, served, lastStrobe, isrTrace>>

RbStates == {"rb_test", "rb_copy", "rb_store", "rb_done"}

(***************************************************************************)
(* State after construction: RingBuffer() and ParallelPortManager().       *)
(***************************************************************************)
RxInit ==
    /\ buffer = [i \in 0..(RING_BUFFER_SIZE - 1) |-> 0]
    /\ head = 0 /\ tail = 0 /\ count = 0 /\ overflowFlag = FALSE
    /\ initialized = FALSE /\ captureEnabled = FALSE
    /\ bytesReceived = 0 /\ overflowCount = 0 /\ totalInterrupts = 0
    /\ attached = FALSE /\ busyPin = FALSE /\ ackPin = FALSE
    /\ pc = "idle" /\ rbRet = "idle" /\ maxBytes = 0 /\ bytesRead = 0
    /\ dest = <<>> /\ tmpCount = 0
    /\ fifo = <<>> /\ dropped = 0 /\ strobes = 0 /\ served = 0 /\ lastStrobe = "none"
    /\ isrTrace = <<>> /\ drainExpect = <<>> /\ drainQuiet = TRUE
    /\ surfaced = 0 /\ latched = FALSE


(***************************************************************************)
(* RingBuffer                                                              *)
(***************************************************************************)
\* RingBuffer::isFull
isFull == count >= RING_BUFFER_SIZE

\* RingBuffer::write(data): reject and latch the flag when full, else store
\* at head, advance head, count++.
RingBuffer_write(data) ==
    /\ IF isFull
         THEN /\ overflowFlag' = TRUE
              /\ UNCHANGED <<buffer, head, count>>
         ELSE /\ buffer' = [buffer EXCEPT ![head] = data]
              /\ head' = (head + 1) % RING_BUFFER_SIZE
              /\ count' = count + 1
              /\ UNCHANGED overflowFlag
    /\ UNCHANGED tail

\* RingBuffer::clear (interrupts masked: one step)
RingBuffer_clear ==
    /\ head' = 0 /\ tail' = 0 /\ count' = 0 /\ overflowFlag' = FALSE
    /\ UNCHANGED buffer

(***************************************************************************)
(* The strobe interrupt.  An AVR ISR runs with interrupts masked and the   *)
(* task cannot run inside it, so one ISR run is one step; it may fall      *)
(* between any two task steps.                                             *)
(***************************************************************************)
\* a handshake that releases BUSY before the acknowledge pulse
HandshakeTrace_EarlyRelease(ok) ==
    <<"BUSY_HIGH", "READ_DATA", IF ok THEN "ENQUEUE" ELSE "REJECT",
      "BUSY_LOW", "ACK_LOW", "ACK_HIGH">>

HandshakeTrace(ok) ==
    <<"BUSY_HIGH", "READ_DATA", IF ok THEN "ENQUEUE" ELSE "REJECT",
      "ACK_LOW", "ACK_HIGH", "BUSY_LOW">>

\* a handler that returns as soon as the push is rejected, leaving BUSY
\* asserted and the strobe neither acknowledged nor counted
handleInterrupt_ReturnWhenFull(data) ==
    IF ~captureEnabled \/ ~initialized
      THEN /\ isrTrace' = <<>>
           /\ UNCHANGED <<ringVars, statVars, pinVars>>
      ELSE /\ RingBuffer_write(data)
           /\ bytesReceived' = IF isFull THEN bytesReceived ELSE bytesReceived + 1
           /\ totalInterrupts' = IF isFull THEN totalInterrupts ELSE totalInterrupts + 1
           /\ busyPin' = isFull /\ ackPin' = TRUE
           /\ isrTrace' = IF isFull THEN <<"BUSY_HIGH", "READ_DATA", "REJECT">>
                                    ELSE HandshakeTrace(TRUE)
           /\ UNCHANGED overflowCount

\* ParallelPortManager::handleInterrupt
handleInterrupt(data) ==
    IF ~captureEnabled \/ ~initialized
      THEN \* line 320-322: return before any pin is driven
           /\ isrTrace' = <<>>
           /\ UNCHANGED <<ringVars, statVars, pinVars>>
      ELSE /\ RingBuffer_write(data)
           /\ bytesReceived' = IF isFull THEN bytesReceived ELSE bytesReceived + 1
           /\ totalInterrupts' = totalInterrupts + 1
           /\ busyPin' = FALSE /\ ackPin' = TRUE
           /\ isrTrace' = HandshakeTrace(~isFull)
           /\ UNCHANGED overflowCount

\* nSTROBE falling edge while INT5 is attached
Strobe ==
    /\ attached
    /\ strobes < MaxStrobes
    /\ \E data \in Byte :
         /\ handleInterrupt(data)
         /\ fifo' = IF captureEnabled /\ initialized /\ ~isFull
                      THEN Append(fifo, data) ELSE fifo
    /\ strobes' = strobes + 1
    /\ lastStrobe' = IF captureEnabled /\ initialized THEN "served" ELSE "refused"
    /\ served' = IF captureEnabled /\ initialized THEN served + 1 ELSE served
    /\ dropped' = IF captureEnabled /\ initialized /\ isFull THEN dropped + 1 ELSE dropped
    /\ latched' = (latched \/ (captureEnabled /\ initialized /\ isFull))
    /\ drainQuiet' = IF pc \in {"rb_test", "rb_copy", "rb_store"} THEN FALSE ELSE drainQuiet
    /\ UNCHANGED <<initialized, captureEnabled, attached, pc, rbLocals, drainExpect, surfaced>>
    /\ UNCHANGED <<fsVars, rtVars, nmVars, xtVars>>

(***************************************************************************)
(* ParallelPortManager, task side                                          *)
(***************************************************************************)
ResetStatGhosts ==
    /\ fifo' = <<>> /\ dropped' = 0 /\ strobes' = 0 /\ served' = 0
    /\ lastStrobe' = "none" /\ latched' = FALSE /\ surfaced' = 0

\* ParallelPortManager::initialize, lines 16-42: pins, ring clear, statistics,
\* attachInterrupt.  (Called when not yet initialized.)
InitializeAttach ==
    /\ pc = "idle" /\ ~initialized
    /\ RingBuffer_clear
    /\ busyPin' = FALSE /\ ackPin' = TRUE
    /\ bytesReceived' = 0 /\ overflowCount' = 0 /\ totalInterrupts' = 0
    /\ attached' = TRUE
    /\ pc' = "init_attached"
    /\ ResetStatGhosts
    /\ UNCHANGED <<initialized, captureEnabled, rbLocals, isrTrace, drainExpect,
                   drainQuiet>>
    /\ UNCHANGED <<fsVars, rtVars, nmVars, xtVars>>

\* ParallelPortManager::initialize, lines 44-52; reached from a direct call
\* and from the "return initialize();" that ends reset (line 124)
InitializeFinish ==
    /\ pc \in {"init_attached", "reset_attached"}
    /\ initialized' = TRUE /\ captureEnabled' = TRUE
    /\ pc' = "idle"
    /\ UNCHANGED <<ringVars, statVars, attached, pinVars, rbLocals, fifo, ghostIsr,
                   drainExpect, drainQuiet, surfaced, latched>>
    /\ UNCHANGED <<fsVars, rtVars, nmVars, xtVars>>

\* ParallelPortManager::reset: lines 102-122, then initialize() up to
\* attachInterrupt (the output pins are rewritten by initialize).  reset
\* returns what initialize returns, so it returns at InitializeFinish.
Reset ==
    /\ pc = "idle" /\ initialized
    /\ RingBuffer_clear
    /\ bytesReceived' = 0 /\ overflowCount' = 0 /\ totalInterrupts' = 0
    /\ captureEnabled' = FALSE /\ initialized' = FALSE
    /\ attached' = TRUE
    /\ busyPin' = FALSE /\ ackPin' = TRUE
    /\ pc' = "reset_attached"
    /\ ResetStatGhosts
    /\ UNCHANGED <<rbLocals, isrTrace, drainExpect, drainQuiet>>
    /\ UNCHANGED <<fsVars, rtVars, nmVars, xtVars>>

\* ParallelPortManager::setCaptureEnabled
SetCaptureEnabled ==
    /\ pc = "idle"
    /\ \E enabled \in BOOLEAN : captureEnabled' = enabled
    /\ UNCHANGED <<ringVars, statVars, initialized, attached, pinVars, pc, rbLocals,
                   fifo, ghostIsr, drainExpect, drainQuiet, surfaced, latched>>
    /\ UNCHANGED <<fsVars, rtVars, nmVars, xtVars>>

\* ParallelPortManager::clearBuffer -> RingBuffer::clear
ClearBuffer ==
    /\ pc = "idle"
    /\ RingBuffer_clear
    /\ fifo' = <<>> /\ latched' = FALSE
    /\ UNCHANGED <<statVars, initialized, captureEnabled, attached, pinVars, pc,
                   rbLocals, ghostIsr, drainExpect, drainQuiet, surfaced>>
    /\ UNCHANGED <<fsVars, rtVars, nmVars, xtVars>>

\* ParallelPortManager::clearBufferOverflow -> RingBuffer::clearOverflow
ClearBufferOverflow ==
    /\ pc = "idle"
    /\ overflowFlag' = FALSE /\ latched' = FALSE
    /\ UNCHANGED <<buffer, head, tail, count, statVars, initialized, captureEnabled,
                   attached, pinVars, pc, rbLocals, fifo, ghostIsr, drainExpect,
                   drainQuiet, surfaced>>
    /\ UNCHANGED <<fsVars, rtVars, nmVars, xtVars>>


(***************************************************************************)
(* RingBuffer::readBytes, step by step.  count is a volatile 16-bit cell   *)
(* on an 8-bit core: "count--" is a load followed by a store, and the      *)
(* strobe interrupt may run between the two.                               *)
(***************************************************************************)
\* entry of readBytes(dest, n), n > 0; ret is where the caller continues
StartReadBytes(n, ret) ==
    /\ maxBytes' = n /\ bytesRead' = 0 /\ dest' = <<>> /\ rbRet' = ret
    /\ pc' = "rb_test"
    /\ drainExpect' = fifo /\ drainQuiet' = TRUE
    /\ UNCHANGED tmpCount

\* line 416: while (bytesRead < maxBytes && count > 0)
RbTest ==
    /\ pc = "rb_test"
    /\ pc' = IF bytesRead < maxBytes /\ count > 0 THEN "rb_copy" ELSE "rb_done"
    /\ UNCHANGED <<ringVars, statVars, initialized, captureEnabled, attached, pinVars,
                   rbLocals, fifo, ghostIsr, drainExpect, drainQuiet, surfaced, latched>>
    /\ UNCHANGED <<fsVars, rtVars, nmVars, xtVars>>

\* the value "count--" stores, given the value it loaded
Decrement(loaded) == loaded - 1

\* lines 417-418 and the load of line 419
RbCopy ==
    /\ pc = "rb_copy"
    /\ dest' = Append(dest, buffer[tail])
    /\ tail' = (tail + 1) % RING_BUFFER_SIZE
    /\ tmpCount' = count
    /\ pc' = "rb_store"
    /\ UNCHANGED <<buffer, head, count, overflowFlag, statVars, initialized,
                   captureEnabled, attached, pinVars, rbRet, maxBytes, bytesRead,
                   fifo, ghostIsr, drainExpect, drainQuiet, surfaced, latched>>
    /\ UNCHANGED <<fsVars, rtVars, nmVars, xtVars>>

\* the store of line 419, and line 420
RbStore ==
    /\ pc = "rb_store"
    /\ count' = Decrement(tmpCount)
    /\ bytesRead' = bytesRead + 1
    /\ fifo' = IF fifo = <<>> THEN fifo ELSE Tail(fifo)
    /\ pc' = "rb_test"
    /\ UNCHANGED <<buffer, head, tail, overflowFlag, statVars, initialized,
                   captureEnabled, attached, pinVars, rbRet, maxBytes, dest, tmpCount,
                   ghostIsr, drainExpect, drainQuiet, surfaced, latched>>
    /\ UNCHANGED <<fsVars, rtVars, nmVars, xtVars>>

\* ParallelPortManager::readData called directly (not from loop()) returns
ReadDataReturn ==
    /\ pc = "rb_done" /\ rbRet = "idle"
    /\ pc' = "idle"
    /\ UNCHANGED <<ringVars, statVars, initialized, captureEnabled, attached, pinVars,
                   rbLocals, fifo, ghostIsr, drainExpect, drainQuiet, surfaced, latched>>
    /\ UNCHANGED <<fsVars, rtVars, nmVars, xtVars>>

\* ParallelPortManager::readData(dest, n) called directly
ReadData ==
    /\ pc = "idle" /\ initialized
    /\ \E n \in 1..RING_BUFFER_SIZE : StartReadBytes(n, "idle")
    /\ UNCHANGED <<ringVars, statVars, initialized, captureEnabled, attached, pinVars,
                   fifo, ghostIsr, surfaced, latched>>
    /\ UNCHANGED <<fsVars, rtVars, nmVars, xtVars>>

(***************************************************************************)
(* loop() (part_010:645-715), one tick                                     *)
(***************************************************************************)
\* ParallelPortManager::update, lines 60-67, on the manager's fields
ManagerUpdate ==
    /\ overflowCount' = IF overflowFlag THEN overflowCount + 1 ELSE overflowCount
    /\ overflowFlag' = FALSE

\* line 658: ServiceLocator::updateAll.  The receiver is component 0; the
\* other components may return non-OK, which ends the tick (line 659-662).
LoopUpdateAll ==
    /\ pc = "idle"
    /\ IF ~initialized
         THEN /\ UNCHANGED <<overflowCount, overflowFlag, pc>>
         ELSE /\ ManagerUpdate
              /\ \E othersOk \in BOOLEAN : pc' = IF othersOk THEN "tick_drain" ELSE "idle"
    /\ UNCHANGED <<buffer, head, tail, count, bytesReceived, totalInterrupts,
                   initialized, captureEnabled, attached, pinVars, rbLocals, fifo,
                   ghostIsr, drainExpect, drainQuiet, surfaced, latched>>
    /\ UNCHANGED <<fsVars, rtVars, nmVars, xtVars>>

\* line 665: processParallelPortData, lines 523-531
LoopProcessData ==
    /\ pc = "tick_drain"
    /\ IF count > 0
         THEN StartReadBytes(Min(count, DATA_BUFFER_SIZE), "tick_store")
         ELSE /\ pc' = "tick_check"
              /\ UNCHANGED <<rbLocals, drainExpect, drainQuiet>>
    /\ UNCHANGED <<ringVars, statVars, initialized, captureEnabled, attached, pinVars,
                   fifo, ghostIsr, surfaced, latched>>
    /\ UNCHANGED <<fsVars, rtVars, nmVars, xtVars>>

\* lines 673-684: the rate-limited overflow check; due = 5 s have passed
LoopOverflowCheck ==
    /\ pc = "tick_check"
    /\ \E due \in BOOLEAN :
         IF due
           THEN /\ surfaced' = IF overflowFlag THEN surfaced + 1 ELSE surfaced
                /\ overflowFlag' = FALSE
                /\ latched' = FALSE
           ELSE UNCHANGED <<surfaced, overflowFlag, latched>>
    /\ pc' = "idle"
    /\ UNCHANGED <<buffer, head, tail, count, statVars, initialized, captureEnabled,
                   attached, pinVars, rbLocals, fifo, ghostIsr, drainExpect, drainQuiet>>
    /\ UNCHANGED <<fsVars, rtVars, nmVars, xtVars>>


(***************************************************************************)
(* Receiver claims                                                         *)
(***************************************************************************)
\* a readBytes call that asked for at least the whole capacity has returned
\* and no strobe arrived while it ran
FullDrainReturned ==
    pc = "rb_done" /\ maxBytes >= RING_BUFFER_SIZE /\ drainQuiet

\* C1: the bytes accepted by the ISR and not yet read are what a subsequent
\* full drain returns, in arrival order (the bytes that did not fit are the
\* ones missing).
C1_DrainYieldsArrivalOrder ==
    FullDrainReturned => dest = drainExpect

\* C2: whenever the task is not in the middle of a pop, count is the number
\* of bytes pushed and not yet popped, lies in 0..N, and agrees with the
\* distance from tail to head.
C2_CountConsistent ==
    pc # "rb_store" =>
        /\ count = Len(fifo)
        /\ 0 <= count /\ count <= RING_BUFFER_SIZE
        /\ (head + RING_BUFFER_SIZE - tail) % RING_BUFFER_SIZE = count % RING_BUFFER_SIZE

\* C3 as stated: every ISR entry is counted in interrupts_total and drives
\* the complete BUSY/nACK handshake.
C3_EveryStrobeHandshaken ==
    /\ totalInterrupts = strobes
    /\ lastStrobe # "none" => isrTrace \in {HandshakeTrace(TRUE), HandshakeTrace(FALSE)}

\* C3 amended: every strobe that finds the receiver initialized with capture
\* enabled is counted and gets the complete handshake (BUSY high, nACK low,
\* nACK high, BUSY low), also when the queue is full; the pins are left idle.
C3_EnabledStrobeHandshaken ==
    /\ totalInterrupts = served
    /\ lastStrobe = "served" =>
          /\ isrTrace \in {HandshakeTrace(TRUE), HandshakeTrace(FALSE)}
          /\ ~busyPin /\ ackPin

\* a strobe was served while the queue was full
C3_Witness ==
    /\ lastStrobe = "served" /\ dropped > 0 /\ isFull
    /\ isrTrace = HandshakeTrace(FALSE)
    /\ totalInterrupts = RING_BUFFER_SIZE + dropped

\* C8: the overflows counter equals the number of pushes rejected on a full
\* queue.
C8_OverflowsCountDrops ==
    overflowCount = dropped

\* C9: once a rejected push has latched the overflow flag, the flag stays
\* set until loop()'s periodic overflow check consults it.
C9_FlagHeldUntilCheck ==
    latched => overflowFlag


(***************************************************************************)
(***************************************************************************)
(* EEPROMStoragePlugin: flat filesystem on the W25Q128 NOR flash           *)
(* (SerialStoragePlugin.cpp:435-1061, EEPROMStoragePlugin.h)               *)
(***************************************************************************)
(***************************************************************************)
\* EEPROMStoragePlugin.h:26 sets 64; scaled.
MAX_FILES == 2
\* EEPROMStoragePlugin.h:29 gives 4096 sectors; scaled.
TOTAL_SECTORS == 3
\* HardwareConfig.h:78 sets 4096; scaled.
EEPROM_SECTOR_SIZE == 1
\* HardwareConfig.h:77 sets 256; scaled.
EEPROM_PAGE_SIZE == 1
\* longest file content offered to writeFile
MaxFileSize == 2
\* flash command timeouts (waitForWriteComplete returns false) in one run
MaxFaults == 1

MAX_FILENAME_LENGTH == 8
DIRECTORY_SECTOR == 0
DATA_START_SECTOR == 1
STATUS_EMPTY == 255
STATUS_ACTIVE == 170
STATUS_DELETED == 85

\* An erased NOR cell reads 0xFF; a 16-bit half of an erased word 0xFFFF.
ERASED == 2^8 - 1
HALF_MAX == 2^16 - 1

(***************************************************************************)
(* uint32_t values are pairs <<high half, low half>> of 16-bit halves;     *)
(* size_t is the target's 16-bit unsigned int.                             *)
(***************************************************************************)
U32(n) == <<n \div 2^16, n % 2^16>>
U32Max == <<HALF_MAX, HALF_MAX>>
\* value of a uint32 whose high half is small enough to be computed with
Val(u) == u[1] * 2^16 + u[2]
\* ~x on a uint32_t
Not32(u) == <<HALF_MAX - u[1], HALF_MAX - u[2]>>
\* ~x on a size_t, converted to uint32_t (zero extension)
NotSizeT(n) == <<0, HALF_MAX - (n % 2^16)>>
\* x < n and x >= n for a uint32 x and a small n
U32Less(u, n) == u[1] = 0 /\ u[2] < n
U32Inc(u) == IF u[2] < HALF_MAX THEN <<u[1], u[2] + 1>>
             ELSE IF u[1] < HALF_MAX THEN <<u[1] + 1, 0>> ELSE <<0, 0>>
U32Dec(u) == IF u[2] > 0 THEN <<u[1], u[2] - 1>>
             ELSE IF u[1] > 0 THEN <<u[1] - 1, HALF_MAX>> ELSE U32Max

(***************************************************************************)
(* Strings are sequences of character codes without the terminating NUL;   *)
(* a filename field is an array of MAX_FILENAME_LENGTH bytes.              *)
(***************************************************************************)
NameIdx == 1..MAX_FILENAME_LENGTH

\* tolower
ToLower(c) == IF c >= 65 /\ c <= 90 THEN c + 32 ELSE c

\* the byte of C string str at 0-based index i (NUL at and after its end)
CharAt(str, i) == IF i < Len(str) THEN str[i + 1] ELSE 0

\* MemoryUtils safeStrlen(field, MAX_FILENAME_LENGTH)
RECURSIVE StrlenFrom(_, _)
StrlenFrom(field, i) ==
    IF i > MAX_FILENAME_LENGTH \/ field[i] = 0 THEN 0 ELSE 1 + StrlenFrom(field, i + 1)
safeStrlen(field) == StrlenFrom(field, 1)

\* MemoryUtils safeCopy(field, MAX_FILENAME_LENGTH, src): at most
\* MAX_FILENAME_LENGTH - 1 characters, then a NUL; the bytes after the NUL
\* keep what the field held.
safeCopy(field, src) ==
    LET copyLen == Min(Len(src), MAX_FILENAME_LENGTH - 1)
    IN [i \in NameIdx |-> IF i <= copyLen THEN src[i]
                          ELSE IF i = copyLen + 1 THEN 0 ELSE field[i]]

\* MemoryUtils equalsIgnoreCase(str1, str1Len, str2), where str1 is a
\* filename field: lengths must agree, then str1Len bytes are compared.
equalsIgnoreCase(field, str1Len, str2) ==
    /\ str1Len = Len(str2)
    /\ \A i \in 1..str1Len : ToLower(field[i]) = ToLower(CharAt(str2, i - 1))

(***************************************************************************)
(* Directory entries (EEPROMStoragePlugin.h:16-23)                         *)
(***************************************************************************)
Slots == 1..MAX_FILES

MkEntry(fn, start, size, comp, st) ==
    [filename |-> fn, startSector |-> start, sizeBytes |-> size,
     sizeComplement |-> comp, status |-> st]

\* a slot of an erased directory sector
ErasedEntry ==
    MkEntry([i \in NameIdx |-> ERASED], U32Max, U32Max, U32Max, ERASED)
\* a slot after clearBuffer(directory, ...)
ZeroEntry ==
    MkEntry([i \in NameIdx |-> 0], U32(0), U32(0), U32(0), 0)

\* EEPROMStoragePlugin::getSectorCount
getSectorCount(sizeBytes) == (sizeBytes + EEPROM_SECTOR_SIZE - 1) \div EEPROM_SECTOR_SIZE

\* EEPROMStoragePlugin::validateFileEntry
validateFileEntry(entry) ==
    /\ entry.sizeBytes = Not32(entry.sizeComplement)
    /\ ~ U32Less(entry.startSector, DATA_START_SECTOR)
    /\ U32Less(entry.startSector, TOTAL_SECTORS)
    /\ safeStrlen(entry.filename) # 0


(***************************************************************************)
(* The flash chip.  A medium value m is a record                           *)
(*   dir   : the directory slots held in sector 0                          *)
(*   data  : the bytes of the data sectors, by byte address                *)
(*   calls : flash commands (erase / page program) issued by the current   *)
(*           API call; command number f times out (f = 0: none does)       *)
(*   dirty : a page program of the last API call hit a byte that was not   *)
(*           in the erased state                  (observation only)      *)
(* Page program can only clear bits (new = old AND data); sector erase     *)
(* sets every byte to 0xFF.  A command that times out leaves the medium    *)
(* as it was.                                                              *)
(***************************************************************************)
DataAddrs == (DATA_START_SECTOR * EEPROM_SECTOR_SIZE)..(TOTAL_SECTORS * EEPROM_SECTOR_SIZE - 1)
SectorOf(addr) == addr \div EEPROM_SECTOR_SIZE

RECURSIVE BitAnd(_, _)
BitAnd(a, b) ==
    IF a = 0 \/ b = 0 THEN 0
    ELSE (a % 2) * (b % 2) + 2 * BitAnd(a \div 2, b \div 2)

\* the result of one flash command
Res(m, ok) == [m |-> m, ok |-> ok]

\* EEPROMStoragePlugin::eraseSector
eraseSector(m, sectorNum, f) ==
    IF sectorNum >= TOTAL_SECTORS THEN Res(m, FALSE)
    ELSE LET n == m.calls + 1 IN
         IF n = f THEN Res([m EXCEPT !.calls = n], FALSE)
         ELSE IF sectorNum = DIRECTORY_SECTOR
           THEN Res([m EXCEPT !.calls = n,
                              !.dir = [i \in Slots |-> ErasedEntry]], TRUE)
           ELSE Res([m EXCEPT !.calls = n,
                              !.data = [a \in DataAddrs |->
                                          IF SectorOf(a) = sectorNum THEN ERASED
                                          ELSE m.data[a]]], TRUE)

\* EEPROMStoragePlugin::writePage on a data address
writePage(m, address, bytes, f) ==
    IF Len(bytes) = 0 \/ Len(bytes) > EEPROM_PAGE_SIZE THEN Res(m, FALSE)
    ELSE LET n == m.calls + 1
             span == address..(address + Len(bytes) - 1)
         IN IF n = f THEN Res([m EXCEPT !.calls = n], FALSE)
            ELSE Res([m EXCEPT !.calls = n,
                               !.data = [a \in DataAddrs |->
                                           IF a \in span
                                             THEN BitAnd(m.data[a], bytes[a - address + 1])
                                             ELSE m.data[a]],
                               !.dirty = m.dirty \/ (\E a \in span : m.data[a] # ERASED)],
                     TRUE)

\* EEPROMStoragePlugin::writePage on the directory page holding slot i (one
\* slot per page here; the page was erased by the eraseSector before it, so
\* the programmed bytes read back as written)
writeDirPage(m, i, entry, f) ==
    LET n == m.calls + 1 IN
    IF n = f THEN Res([m EXCEPT !.calls = n], FALSE)
    ELSE Res([m EXCEPT !.calls = n, !.dir = [m.dir EXCEPT ![i] = entry]], TRUE)

RECURSIVE WriteDirPages(_, _, _, _)
WriteDirPages(m, dir, i, f) ==
    IF i > MAX_FILES THEN Res(m, TRUE)
    ELSE LET r == writeDirPage(m, i, dir[i], f)
         IN IF ~r.ok THEN r ELSE WriteDirPages(r.m, dir, i + 1, f)

\* EEPROMStoragePlugin::saveDirectory
saveDirectory(m, dir, f) ==
    LET r == eraseSector(m, DIRECTORY_SECTOR, f)
    IN IF ~r.ok THEN r ELSE WriteDirPages(r.m, dir, 1, f)

\* EEPROMStoragePlugin::writeFile, lines 813-828: the page loop
RECURSIVE WritePages(_, _, _, _, _)
WritePages(m, address, data, totalWritten, f) ==
    IF totalWritten >= Len(data) THEN Res(m, TRUE)
    ELSE LET pageSize == Min(Len(data) - totalWritten, EEPROM_PAGE_SIZE)
             r == writePage(m, address + totalWritten,
                            SubSeq(data, totalWritten + 1, totalWritten + pageSize), f)
         IN IF ~r.ok THEN r
            ELSE WritePages(r.m, address, data, totalWritten + pageSize, f)

\* EEPROMStoragePlugin::freeSectors (the erase results are not looked at)
RECURSIVE EraseRun(_, _, _, _)
EraseRun(m, sector, n, f) ==
    IF n = 0 THEN m ELSE EraseRun(eraseSector(m, sector, f).m, sector + 1, n - 1, f)
freeSectors(m, startSector, sizeBytes, f) ==
    EraseRun(m, startSector, getSectorCount(sizeBytes), f)

\* EEPROMStoragePlugin::readData
readData(m, address, size) ==
    [i \in 1..size |-> IF (address + i - 1) \in DataAddrs THEN m.data[address + i - 1] ELSE ERASED]

\* start and end of an API call, for the observation fields
BeginCall(m) == [m EXCEPT !.calls = 0, !.dirty = FALSE]
EndCall(m) == [m EXCEPT !.calls = 0]

(***************************************************************************)
(* Directory search and allocation                                         *)
(***************************************************************************)
FirstSlot(P(_)) == IF \E i \in Slots : P(i) THEN CHOOSE i \in Slots : P(i) /\ \A j \in 1..(i - 1) : ~P(j) ELSE 0

\* EEPROMStoragePlugin::findFileEntry (slot index, 0 for nullptr)
findFileEntry(dir, filename) ==
    LET Match(i) == /\ dir[i].status = STATUS_ACTIVE
                    /\ equalsIgnoreCase(dir[i].filename, MAX_FILENAME_LENGTH, filename)
    IN FirstSlot(Match)

\* EEPROMStoragePlugin::findEmptyEntry (slot index, 0 for nullptr)
findEmptyEntry(dir) ==
    LET Free(i) == dir[i].status = STATUS_EMPTY \/ dir[i].status = STATUS_DELETED
    IN FirstSlot(Free)

\* an allocator that hands out the tail without reserving it
allocateSectors_NoAdvance(nextFree, sizeBytes) ==
    LET sectorsNeeded == getSectorCount(sizeBytes)
    IN IF nextFree + sectorsNeeded > TOTAL_SECTORS
         THEN [start |-> 0, next |-> nextFree]
         ELSE [start |-> nextFree, next |-> nextFree]

\* EEPROMStoragePlugin::allocateSectors: the start sector (0: no space) and
\* the new nextFreeSector; defragment() is a stub that returns false
allocateSectors(nextFree, sizeBytes) ==
    LET sectorsNeeded == getSectorCount(sizeBytes)
    IN IF nextFree + sectorsNeeded > TOTAL_SECTORS
         THEN [start |-> 0, next |-> nextFree]
         ELSE [start |-> nextFree, next |-> nextFree + sectorsNeeded]


(***************************************************************************)
(* Filesystem state                                                        *)
(***************************************************************************)
NoRead == [name |-> <<>>, ret |-> 0, buf |-> <<>>]
NoWrite == [name |-> <<>>, data |-> <<>>]

\* the filesystem fields as one value, for the operations below
FsState(m, dir, next, total, deleted) ==
    [m |-> m, dir |-> dir, next |-> next, total |-> total, deleted |-> deleted]
CurrentFs == FsState(BeginCall(flash), directory, nextFreeSector, totalFiles, deletedFiles)

\* sector extent of an entry whose fields are small
EndSector(entry) == Val(entry.startSector) + getSectorCount(Val(entry.sizeBytes))

RECURSIVE CountSlots(_, _)
CountSlots(P(_), i) ==
    IF i > MAX_FILES THEN 0 ELSE (IF P(i) THEN 1 ELSE 0) + CountSlots(P, i + 1)

RECURSIVE MaxEnd(_, _, _)
MaxEnd(dir, i, acc) ==
    IF i > MAX_FILES THEN acc
    ELSE MaxEnd(dir, i + 1,
                IF dir[i].status = STATUS_ACTIVE /\ validateFileEntry(dir[i])
                   /\ EndSector(dir[i]) > acc
                  THEN EndSector(dir[i]) ELSE acc)

\* loadDirectory without the integrity check of lines 632-640: an ACTIVE
\* slot is taken as it is read
loadDirectory_KeepInvalid(m) ==
    LET read == m.dir
        Active(i) == read[i].status = STATUS_ACTIVE
        Deleted(i) == read[i].status = STATUS_DELETED
    IN FsState(m, read, MaxEnd(read, 1, DATA_START_SECTOR),
               U32(CountSlots(Active, 1)), U32(CountSlots(Deleted, 1)))

\* loadDirectory followed by a saveDirectory of the checked directory
loadDirectory_WriteBack(m) ==
    LET read == m.dir
        Valid(i) == read[i].status = STATUS_ACTIVE /\ validateFileEntry(read[i])
        Invalid(i) == read[i].status = STATUS_ACTIVE /\ ~validateFileEntry(read[i])
        Gone(i) == Invalid(i) \/ read[i].status = STATUS_DELETED
        checked == [i \in Slots |-> IF Invalid(i)
                                      THEN [read[i] EXCEPT !.status = STATUS_DELETED]
                                      ELSE read[i]]
    IN FsState(saveDirectory(m, checked, 0).m, checked,
               MaxEnd(read, 1, DATA_START_SECTOR),
               U32(CountSlots(Valid, 1)),
               U32(CountSlots(Gone, 1)))

\* loadDirectory without the recomputation of lines 641-646: nextFreeSector
\* keeps the constructor's value
loadDirectory_NextAtStart(m) ==
    LET read == m.dir
        Valid(i) == read[i].status = STATUS_ACTIVE /\ validateFileEntry(read[i])
        Invalid(i) == read[i].status = STATUS_ACTIVE /\ ~validateFileEntry(read[i])
        Gone(i) == Invalid(i) \/ read[i].status = STATUS_DELETED
    IN FsState(m,
               [i \in Slots |-> IF Invalid(i)
                                  THEN [read[i] EXCEPT !.status = STATUS_DELETED]
                                  ELSE read[i]],
               DATA_START_SECTOR,
               U32(CountSlots(Valid, 1)),
               U32(CountSlots(Gone, 1)))

\* EEPROMStoragePlugin::loadDirectory
loadDirectory(m) ==
    LET read == m.dir
        Valid(i) == read[i].status = STATUS_ACTIVE /\ validateFileEntry(read[i])
        Invalid(i) == read[i].status = STATUS_ACTIVE /\ ~validateFileEntry(read[i])
        Gone(i) == Invalid(i) \/ read[i].status = STATUS_DELETED
    IN FsState(m,
               [i \in Slots |-> IF Invalid(i)
                                  THEN [read[i] EXCEPT !.status = STATUS_DELETED]
                                  ELSE read[i]],
               MaxEnd(read, 1, DATA_START_SECTOR),
               U32(CountSlots(Valid, 1)),
               U32(CountSlots(Gone, 1)))

\* EEPROMStoragePlugin::deleteFile on filesystem value st; ret is its result
deleteFile(st, filename, f) ==
    LET i == findFileEntry(st.dir, filename) IN
    IF i = 0 THEN [st |-> st, ret |-> FALSE]
    ELSE LET dir1 == [st.dir EXCEPT ![i].status = STATUS_DELETED]
             r == saveDirectory(st.m, dir1, f)
         IN [st |-> FsState(r.m, dir1, st.next, U32Dec(st.total), U32Inc(st.deleted)),
             ret |-> r.ok]

\* writeFile that leaves the new directory entry in the mirror and does not
\* call saveDirectory before it returns
writeFile_DeferSave(st, filename, data, f) ==
    LET size == Len(data)
        st1 == IF findFileEntry(st.dir, filename) # 0
                 THEN deleteFile(st, filename, f).st ELSE st
        slot == findEmptyEntry(st1.dir)
        alloc == allocateSectors(st1.next, size)
        startSector == alloc.start
        w == WritePages(st1.m, startSector * EEPROM_SECTOR_SIZE, data, 0, f)
        dir2 == [st1.dir EXCEPT ![slot] =
                    MkEntry(safeCopy(st1.dir[slot].filename, filename),
                            U32(startSector), U32(size), NotSizeT(size), STATUS_ACTIVE)]
    IN IF slot = 0 THEN [st |-> st1, ret |-> 0, at |-> "directory_full"]
       ELSE IF startSector = 0 THEN [st |-> st1, ret |-> 0, at |-> "no_space"]
       ELSE IF ~w.ok
         THEN [st |-> FsState(freeSectors(w.m, startSector, size, f), st1.dir,
                              alloc.next, st1.total, st1.deleted),
               ret |-> 0, at |-> "write_failed"]
       ELSE [st |-> FsState(w.m, dir2, alloc.next, U32Inc(st1.total), st1.deleted),
             ret |-> size, at |-> "written"]

\* EEPROMStoragePlugin::writeFile, lines 782-857, on filesystem value st;
\* ret is the value returned and at names the return statement taken
writeFile(st, filename, data, f) ==
    LET size == Len(data)
        st1 == IF findFileEntry(st.dir, filename) # 0
                 THEN deleteFile(st, filename, f).st ELSE st
        slot == findEmptyEntry(st1.dir)
        alloc == allocateSectors(st1.next, size)
        startSector == alloc.start
        w == WritePages(st1.m, startSector * EEPROM_SECTOR_SIZE, data, 0, f)
        dir2 == [st1.dir EXCEPT ![slot] =
                    MkEntry(safeCopy(st1.dir[slot].filename, filename),
                            U32(startSector), U32(size), NotSizeT(size), STATUS_ACTIVE)]
        sv == saveDirectory(w.m, dir2, f)
    IN IF slot = 0 THEN [st |-> st1, ret |-> 0, at |-> "directory_full"]
       ELSE IF startSector = 0 THEN [st |-> st1, ret |-> 0, at |-> "no_space"]
       ELSE IF ~w.ok
         THEN [st |-> FsState(freeSectors(w.m, startSector, size, f), st1.dir,
                              alloc.next, st1.total, st1.deleted),
               ret |-> 0, at |-> "write_failed"]
       ELSE IF ~sv.ok
         THEN [st |-> FsState(freeSectors(sv.m, startSector, size, f), dir2,
                              alloc.next, st1.total, st1.deleted),
               ret |-> 0, at |-> "save_failed"]
       ELSE [st |-> FsState(sv.m, dir2, alloc.next, U32Inc(st1.total), st1.deleted),
             ret |-> size, at |-> "written"]

\* EEPROMStoragePlugin::readFile: the number of bytes and the bytes
readFile(st, filename, maxSize) ==
    LET i == findFileEntry(st.dir, filename)
        bytesToRead == Min(Val(st.dir[i].sizeBytes), maxSize)
        address == Val(st.dir[i].startSector) * EEPROM_SECTOR_SIZE
    IN IF i = 0 \/ bytesToRead = 0 THEN [ret |-> 0, buf |-> <<>>]
       ELSE [ret |-> bytesToRead, buf |-> readData(st.m, address, bytesToRead)]

\* EEPROMStoragePlugin::format on filesystem value st
format(st, f) ==
    LET dir1 == [i \in Slots |-> [ZeroEntry EXCEPT !.status = STATUS_EMPTY]]
        r == saveDirectory(st.m, dir1, f)
    IN [st |-> FsState(r.m, dir1, DATA_START_SECTOR, U32(0), U32(0)), ret |-> r.ok]

\* EEPROMStoragePlugin::fsck on filesystem value st
fsck(st, f) ==
    LET Bad(i) == st.dir[i].status = STATUS_ACTIVE /\ ~validateFileEntry(st.dir[i])
        hasErrors == \E i \in Slots : Bad(i)
        dir1 == [i \in Slots |-> IF Bad(i) THEN [st.dir[i] EXCEPT !.status = STATUS_DELETED]
                                 ELSE st.dir[i]]
    IN IF hasErrors
         THEN [st |-> loadDirectory(saveDirectory(st.m, dir1, f).m), ret |-> FALSE]
         ELSE [st |-> st, ret |-> TRUE]


(***************************************************************************)
(* Media the firmware may find in the chip at power-up                     *)
(***************************************************************************)
\* names offered to the API: "a" and the 8-character "datafile"; a chip
\* written elsewhere may hold "DATAFILE" and "b"
Name8 == <<100, 97, 116, 97, 102, 105, 108, 101>>
Name8Upper == <<68, 65, 84, 65, 70, 73, 76, 69>>
Names == {<<97>>, Name8}

\* file contents offered to writeFile: 1..MaxFileSize bytes of 0x00 or 0xFF
FileData == {[i \in 1..n |-> b] : n \in 1..MaxFileSize, b \in {0, ERASED}}

\* a filename field holding name (unterminated when name fills the field)
NameField(name) == [i \in NameIdx |-> CharAt(name, i - 1)]

\* an ACTIVE entry with a correct 32-bit complement
ValidEntry(name, start, size) ==
    MkEntry(NameField(name), U32(start), U32(size), Not32(U32(size)), STATUS_ACTIVE)

\* a directory image whose first two slots are e1 and e2, the rest erased
DirImage(e1, e2) ==
    [i \in Slots |-> IF i = 1 THEN e1 ELSE IF i = 2 THEN e2 ELSE ErasedEntry]

InitialDirs ==
    { \* a blank chip
      DirImage(ErasedEntry, ErasedEntry),
      \* one well-formed file
      DirImage(ValidEntry(Name8Upper, DATA_START_SECTOR, 1), ErasedEntry),
      \* an ACTIVE slot whose complement does not match
      DirImage([ValidEntry(<<98>>, DATA_START_SECTOR, 1) EXCEPT !.sizeComplement = U32(0)],
               ErasedEntry),
      \* two complement-valid ACTIVE slots on the same sector
      DirImage(ValidEntry(Name8Upper, DATA_START_SECTOR, 1),
               ValidEntry(<<98>>, DATA_START_SECTOR, 1)),
      \* a complement-valid ACTIVE slot that runs past the end of the chip
      DirImage(ValidEntry(Name8Upper, TOTAL_SECTORS - 1, 2 * EEPROM_SECTOR_SIZE), ErasedEntry) }

Medium(dir) ==
    [dir |-> dir, data |-> [a \in DataAddrs |-> ERASED], calls |-> 0, dirty |-> FALSE]

\* EEPROMStoragePlugin::EEPROMStoragePlugin()
FsConstructed ==
    /\ directory = [i \in Slots |-> ZeroEntry]
    /\ nextFreeSector = DATA_START_SECTOR
    /\ totalFiles = U32(0) /\ deletedFiles = U32(0)
    /\ eepromInitialized = FALSE
    /\ lastRead = NoRead /\ lastWrite = NoWrite
    /\ faultsLeft = MaxFaults
    /\ lineage = "constructed" /\ disjointAtMount = TRUE

FsInit ==
    /\ FsConstructed
    /\ \E dir \in InitialDirs : flash = Medium(dir)

\* fault positions offered to one API call: no command times out (0), or
\* the call's f-th flash command does
Faults == {f \in 0..(MAX_FILES + 1) : f = 0 \/ faultsLeft > 0}

\* two entries' sector extents [start, start + ceil(size/SECTOR)) are disjoint
ExtentsDisjointPair(e1, e2) ==
    \/ EndSector(e1) <= Val(e2.startSector)
    \/ EndSector(e2) <= Val(e1.startSector)

ActiveExtentsDisjoint(dir, Sel(_)) ==
    \A i, j \in Slots :
        (i # j /\ Sel(dir[i]) /\ Sel(dir[j])) => ExtentsDisjointPair(dir[i], dir[j])

IsActive(entry) == entry.status = STATUS_ACTIVE
IsValidActive(entry) == entry.status = STATUS_ACTIVE /\ validateFileEntry(entry)

\* store a filesystem value in the plugin's fields
Commit(st, f) ==
    /\ faultsLeft' = IF f > 0 /\ st.m.calls >= f THEN faultsLeft - 1 ELSE faultsLeft
    /\ flash' = EndCall(st.m)
    /\ directory' = st.dir
    /\ nextFreeSector' = st.next
    /\ totalFiles' = st.total
    /\ deletedFiles' = st.deleted

fsFields == <<flash, directory, nextFreeSector, totalFiles, deletedFiles>>


(***************************************************************************)
(* The plugin's API, one call per step (the filesystem is single-threaded  *)
(* and every call is synchronous)                                          *)
(***************************************************************************)
\* EEPROMStoragePlugin::initialize while not initialized, with a chip that
\* answers the JEDEC id request (neither 0x000000 nor 0xFFFFFF).  readData
\* never fails, so loadDirectory returns true, format() is not reached and
\* the call returns STATUS_OK.
EepromInitialize ==
    /\ Commit(loadDirectory(BeginCall(flash)), 0)
    /\ eepromInitialized' = TRUE
    /\ lineage' = "loaded"
    /\ disjointAtMount' = ActiveExtentsDisjoint(flash.dir, IsValidActive)
    /\ lastRead' = NoRead /\ lastWrite' = NoWrite

Mount ==
    /\ ~eepromInitialized
    /\ EepromInitialize
    /\ UNCHANGED <<rxVars, rtVars, nmVars, xtVars>>

\* power is removed and restored between two API calls: the object is
\* constructed again, the chip keeps its content
PowerCycle ==
    /\ eepromInitialized
    /\ directory' = [i \in Slots |-> ZeroEntry]
    /\ nextFreeSector' = DATA_START_SECTOR
    /\ totalFiles' = U32(0) /\ deletedFiles' = U32(0)
    /\ eepromInitialized' = FALSE
    /\ lastRead' = NoRead /\ lastWrite' = NoWrite
    /\ lineage' = "constructed" /\ disjointAtMount' = TRUE
    /\ UNCHANGED <<flash, faultsLeft, rxVars, rtVars, nmVars, xtVars>>

\* EEPROMStoragePlugin::format, called by FileSystemManager::formatStorage
\* on the selected (ready) storage
Format ==
    /\ eepromInitialized
    /\ \E f \in Faults :
         LET r == format(CurrentFs, f) IN
         /\ Commit(r.st, f)
         /\ lineage' = IF r.ret THEN "format" ELSE "other"
    /\ lastRead' = NoRead /\ lastWrite' = NoWrite
    /\ disjointAtMount' = TRUE
    /\ UNCHANGED <<eepromInitialized, rxVars, rtVars, nmVars, xtVars>>

\* EEPROMStoragePlugin::writeFile(filename, data, size), size > 0.
\* FileSystemManager calls the selected storage only while it isReady()
\* (part_008:298, 357), so the API below runs on an initialized plugin.
EepromWriteFile(filename, data, f) ==
    LET r == writeFile(CurrentFs, filename, data, f) IN
    /\ Commit(r.st, f)
    /\ lastWrite' = IF r.ret = Len(data)
                      THEN [name |-> filename, data |-> data]
                      ELSE NoWrite
    /\ lastRead' = NoRead
    /\ UNCHANGED <<eepromInitialized, lineage, disjointAtMount>>

WriteFile ==
    /\ eepromInitialized
    /\ \E filename \in Names, data \in FileData, f \in Faults :
         EepromWriteFile(filename, data, f)
    /\ UNCHANGED <<rxVars, rtVars, nmVars, xtVars>>

\* EEPROMStoragePlugin::readFile(filename, data, maxSize) into a buffer of
\* MaxFileSize bytes
EepromReadFile(filename, maxSize) ==
    LET r == readFile(CurrentFs, filename, maxSize) IN
    /\ lastRead' = [name |-> filename, ret |-> r.ret, buf |-> r.buf]
    /\ UNCHANGED <<fsFields, eepromInitialized, lastWrite, faultsLeft, lineage,
                   disjointAtMount>>

ReadFile ==
    /\ eepromInitialized
    /\ \E filename \in Names : EepromReadFile(filename, MaxFileSize)
    /\ UNCHANGED <<rxVars, rtVars, nmVars, xtVars>>

\* EEPROMStoragePlugin::deleteFile(filename)
EepromDeleteFile(filename, f) ==
    LET r == deleteFile(CurrentFs, filename, f) IN
    /\ Commit(r.st, f)
    /\ lastRead' = NoRead /\ lastWrite' = NoWrite
    /\ lineage' = IF lineage = "format" THEN "other" ELSE lineage
    /\ UNCHANGED <<eepromInitialized, disjointAtMount>>

DeleteFile ==
    /\ eepromInitialized
    /\ \E filename \in Names, f \in Faults : EepromDeleteFile(filename, f)
    /\ UNCHANGED <<rxVars, rtVars, nmVars, xtVars>>

\* EEPROMStoragePlugin::fsck
Fsck ==
    /\ eepromInitialized
    /\ \E f \in Faults :
         LET r == fsck(CurrentFs, f) IN
         /\ Commit(r.st, f)
    /\ lastRead' = NoRead /\ lastWrite' = NoWrite
    /\ lineage' = IF lineage = "format" THEN "other" ELSE lineage
    /\ UNCHANGED <<eepromInitialized, disjointAtMount, rxVars, rtVars, nmVars, xtVars>>

FsNext ==
    \/ Mount
    \/ PowerCycle
    \/ Format
    \/ WriteFile
    \/ ReadFile
    \/ DeleteFile
    \/ Fsck

(***************************************************************************)
(* SerialStoragePlugin: files streamed as hex text over the serial link.   *)
(* Characters are their ASCII codes, a line is a sequence of characters,   *)
(* and the link carries a sequence of lines (each sent with CR LF).        *)
(* debugEnabled stays false as constructed, so no debug text is printed.   *)
(***************************************************************************)
HEX_BYTES_PER_LINE == 32
HEX_LINE_BUFFER_SIZE == 64
\* longest payload enumerated exhaustively
MaxHexShort == 3

BEGIN_TAG == <<66, 69, 71, 73, 78, 58>>
SIZE_TAG == <<83, 73, 90, 69, 58>>
END_TAG == <<69, 78, 68, 58>>

\* Serial.print(uint32_t): decimal digits
RECURSIVE Decimal(_)
Decimal(n) == IF n < 10 THEN <<48 + n>> ELSE Append(Decimal(n \div 10), 48 + (n % 10))

\* byteToHex, lines 52-61: two upper-case hex digits
byteToHex(value) ==
    LET hexChars(d) == IF d < 10 THEN 48 + d ELSE 55 + d
    IN <<hexChars((value \div 16) % 16), hexChars(value % 16)>>

\* hexToByte, lines 63-87, on the two characters at hexStr; -1 for false
hexToByte(c1, c2) ==
    LET nibble(ch) == IF ch >= 48 /\ ch <= 57 THEN ch - 48
                      ELSE IF ch >= 65 /\ ch <= 70 THEN ch - 65 + 10
                      ELSE IF ch >= 97 /\ ch <= 102 THEN ch - 97 + 10
                      ELSE -1
    IN IF nibble(c1) < 0 \/ nibble(c2) < 0 THEN -1 ELSE nibble(c1) * 16 + nibble(c2)

\* MemoryUtils appendString, lines 235-249
appendString(dst, destSize, src) ==
    IF Len(dst) >= destSize - 1 THEN dst
    ELSE dst \o SubSeq(src, 1, Min(Len(src), destSize - Len(dst) - 1))

\* the loop of sendHexLine, lines 125-134 (i counts from 0); once
\* hexLineBuffer is full every further appendString leaves it as it is
RECURSIVE HexLineFrom(_, _, _)
HexLineFrom(data, i, line) ==
    IF i >= Len(data) \/ Len(line) >= HEX_LINE_BUFFER_SIZE - 1 THEN line
    ELSE LET withByte == appendString(line, HEX_LINE_BUFFER_SIZE, byteToHex(data[i + 1]))
             withSpace == IF (i + 1) % 8 = 0 /\ i < Len(data) - 1
                            THEN appendString(withByte, HEX_LINE_BUFFER_SIZE, <<32>>)
                            ELSE withByte
         IN HexLineFrom(data, i + 1, withSpace)

\* sendHexLine, lines 110-139: the lines it puts on the link
sendHexLine(data) ==
    IF Len(data) = 0 \/ Len(data) > HEX_BYTES_PER_LINE THEN <<>>
    ELSE <<HexLineFrom(data, 0, <<>>)>>

\* the while loop of streamFile, lines 180-199
RECURSIVE HexLines(_, _)
HexLines(data, totalSent) ==
    IF totalSent >= Len(data) THEN <<>>
    ELSE LET lineSize == Min(Len(data) - totalSent, HEX_BYTES_PER_LINE)
         IN sendHexLine(SubSeq(data, totalSent + 1, totalSent + lineSize))
              \o HexLines(data, totalSent + lineSize)

\* SerialStoragePlugin::isReady, lines 32-34
serialIsReady == serialInitialized /\ txRoom

\* SerialStoragePlugin::writeFile and streamFile, lines 149-219
streamFile(filename, data) ==
    IF ~serialInitialized \/ Len(data) = 0 \/ ~serialIsReady
      THEN [lines |-> <<>>, ret |-> 0]
      ELSE [lines |-> <<BEGIN_TAG \o filename, SIZE_TAG \o Decimal(Len(data))>>
                        \o HexLines(data, 0) \o <<END_TAG \o filename>>,
            ret |-> Len(data)]

\* MemoryUtils startsWith, lines 43-60
startsWith(str, prefix) ==
    /\ Len(str) > 0
    /\ Len(prefix) <= Len(str)
    /\ SubSeq(str, 1, Len(prefix)) = prefix

\* receiveFile lines 261-265: the text after the first ':' and the character
\* that follows it, or the whole line
hexStartOf(line) ==
    IF \E c \in 1..Len(line) : line[c] = 58
      THEN LET colonPos == CHOOSE c \in 1..Len(line) :
                               line[c] = 58 /\ \A d \in 1..(c - 1) : line[d] # 58
           IN SubSeq(line, colonPos + 2, Len(line))
      ELSE line

\* receiveFile lines 268-274: the pair loop (i counts from 0)
RECURSIVE HexPairs(_, _, _, _)
HexPairs(hexStart, i, data, maxSize) ==
    IF i < Len(hexStart) - 1 /\ Len(data) < maxSize
      THEN LET byte == hexToByte(hexStart[i + 1], hexStart[i + 2])
           IN HexPairs(hexStart, i + 2,
                       IF byte >= 0 THEN Append(data, byte) ELSE data, maxSize)
      ELSE data

\* receiveFile lines 261-268 on a line whose first ':' has fewer than two
\* characters after it.  hexStart = colonPos + 2 then points at the
\* terminating NUL (one character follows) or one past it (none follows).
\* In the first case hexLen is 0 and hexLen - 1 wraps to SIZE_MAX; in the
\* second safeStrlen starts behind the terminator.  Either way the pair
\* loop reads what lies in and behind lineBuffer after the terminator.
Overruns(line) ==
    /\ \E c \in 1..Len(line) : line[c] = 58
    /\ LET colonPos == CHOOSE c \in 1..Len(line) :
                            line[c] = 58 /\ \A d \in 1..(c - 1) : line[d] # 58
       IN Len(line) - colonPos < 2

\* receiveFile lines 245-286 over the lines waiting on the link, from line k:
\* the bytes stored, the number of lines consumed, and whether a line was
\* decoded from behind its terminator; it returns when maxSize bytes are
\* stored or the link stays silent until the timeout.  The memory behind a
\* terminator is not written by this call: junk is what the pair loop
\* decodes from it (nothing, or bytes stored until maxSize is reached).
RECURSIVE ReceiveLines(_, _, _, _, _, _)
ReceiveLines(lines, k, data, maxSize, junk, past) ==
    IF Len(data) >= maxSize \/ k > Len(lines)
      THEN [data |-> data, used |-> k - 1, past |-> past]
    ELSE IF Len(lines[k]) = 0
           \/ startsWith(lines[k], BEGIN_TAG) \/ startsWith(lines[k], END_TAG)
           \/ startsWith(lines[k], SIZE_TAG)
      THEN ReceiveLines(lines, k + 1, data, maxSize, junk, past)
    ELSE IF Overruns(lines[k])
      THEN ReceiveLines(lines, k + 1,
                        data \o SubSeq(junk, 1, Min(Len(junk), maxSize - Len(data))),
                        maxSize, junk, TRUE)
    ELSE ReceiveLines(lines, k + 1, HexPairs(hexStartOf(lines[k]), 0, data, maxSize),
                      maxSize, junk, past)

\* SerialStoragePlugin::receiveFile, lines 235-289
receiveFile(lines, maxSize, junk) ==
    IF ~serialIsReady \/ maxSize = 0 THEN [data |-> <<>>, used |-> 0, past |-> FALSE]
    ELSE ReceiveLines(lines, 1, <<>>, maxSize, junk, FALSE)

(***************************************************************************)
(* SDCardStoragePlugin.  The card keeps a set of files (name -> bytes);    *)
(* readiness is the cached pair cardPresent / writeProtected, which only   *)
(* checkCardStatus refreshes from the pins.                                *)
(***************************************************************************)
\* bytes the card can hold in one file
MaxSdFile == 1

\* SDCardStoragePlugin::isReady, part_007:54-56
sdIsReady == sdInitialized /\ cardPresent /\ ~writeProtected

\* the values checkCardStatus (part_007:74-89) stores
CardIn == sdDetectPin = "LOW"
CardLocked == sdWriteProtectPin = "HIGH"

SdResult(present, protected, files, ret, buf) ==
    [present |-> present, protected |-> protected, files |-> files, ret |-> ret,
     buf |-> buf]

\* SDCardStoragePlugin::writeFile, part_007:129-178; SD.open(FILE_WRITE)
\* creates the file or appends to it, and a full card writes a part
sdWriteFile(filename, data) ==
    IF ~sdIsReady \/ Len(data) = 0
      THEN SdResult(cardPresent, writeProtected, sdFiles, 0, <<>>)
    ELSE IF ~CardIn \/ CardLocked
      THEN SdResult(CardIn, CardLocked, sdFiles, 0, <<>>)
    ELSE LET old == IF filename \in DOMAIN sdFiles THEN sdFiles[filename] ELSE <<>>
             bytesWritten == Min(Len(data), MaxSdFile - Len(old))
         IN SdResult(TRUE, FALSE,
                     [n \in DOMAIN sdFiles \cup {filename} |->
                         IF n = filename THEN old \o SubSeq(data, 1, bytesWritten)
                                         ELSE sdFiles[n]],
                     bytesWritten, <<>>)

\* SDCardStoragePlugin::readFile, part_007:180-209
sdReadFile(filename, maxSize) ==
    IF ~sdInitialized \/ ~cardPresent \/ maxSize = 0
      THEN SdResult(cardPresent, writeProtected, sdFiles, 0, <<>>)
    ELSE IF ~CardIn \/ filename \notin DOMAIN sdFiles
      THEN SdResult(CardIn, CardLocked, sdFiles, 0, <<>>)
    ELSE LET n == Min(Len(sdFiles[filename]), maxSize)
         IN SdResult(CardIn, CardLocked, sdFiles, n, SubSeq(sdFiles[filename], 1, n))

\* SDCardStoragePlugin::deleteFile, part_007:211-231
sdDeleteFile(filename) ==
    IF ~sdIsReady THEN SdResult(cardPresent, writeProtected, sdFiles, FALSE, <<>>)
    ELSE IF ~CardIn \/ CardLocked \/ filename \notin DOMAIN sdFiles
      THEN SdResult(CardIn, CardLocked, sdFiles, FALSE, <<>>)
    ELSE SdResult(CardIn, CardLocked,
                  [n \in DOMAIN sdFiles \ {filename} |-> sdFiles[n]], TRUE, <<>>)

\* SDCardStoragePlugin::fileExists, part_007:233-239 (the pins are not read;
\* SD.exists finds nothing on a card that is out)
sdFileExists(filename) ==
    sdInitialized /\ cardPresent /\ CardIn /\ filename \in DOMAIN sdFiles

\* SDCardStoragePlugin::getFileSize, part_007:241-255
sdGetFileSize(filename) == IF sdFileExists(filename) THEN Len(sdFiles[filename]) ELSE 0

SdApply(r) ==
    /\ cardPresent' = r.present
    /\ writeProtected' = r.protected
    /\ sdFiles' = r.files

sdFields == <<cardPresent, writeProtected, sdFiles>>

(***************************************************************************)
(* FileSystemManager: the router over the three plugins                    *)
(***************************************************************************)
TRANSFER_BUFFER_SIZE == 32

StorageTypes == {"STORAGE_SD_CARD", "STORAGE_EEPROM", "STORAGE_SERIAL", "STORAGE_AUTO"}

\* getPluginByType(type)->isReady(); false for the null plugin of STORAGE_AUTO
IsReady(type) ==
    CASE type = "STORAGE_SD_CARD" -> sdIsReady
      [] type = "STORAGE_EEPROM" -> eepromInitialized
      [] type = "STORAGE_SERIAL" -> serialIsReady
      [] OTHER -> FALSE

\* a selection rule that prefers the flash chip to the card
autoDetectStorage_EepromFirst(sdReady, eepromReady, serialReady) ==
    IF eepromReady THEN "STORAGE_EEPROM"
    ELSE IF sdReady THEN "STORAGE_SD_CARD"
    ELSE IF serialReady THEN "STORAGE_SERIAL"
    ELSE "STORAGE_SD_CARD"

\* FileSystemManager::autoDetectStorage, part_008:188-203
autoDetectStorage(sdReady, eepromReady, serialReady) ==
    IF sdReady THEN "STORAGE_SD_CARD"
    ELSE IF eepromReady THEN "STORAGE_EEPROM"
    ELSE IF serialReady THEN "STORAGE_SERIAL"
    ELSE "STORAGE_SD_CARD"

\* FileSystemManager::isValidFilename, part_008:244-265; char is signed, so
\* a byte of 128 or more compares below 32
isValidFilename(filename) ==
    LET len == Min(Len(filename), MAX_FILENAME_LENGTH)
    IN /\ len # 0 /\ len < MAX_FILENAME_LENGTH
       /\ \A i \in 1..len :
            /\ filename[i] >= 32 /\ filename[i] < 128
            /\ filename[i] \notin {47, 92, 58, 42, 63, 34, 60, 62, 124}

\* payloads offered to the router
RouterData == {d \in FileData : Len(d) = 1}

\* names offered to the router: "a", the empty name, one of 8 characters,
\* "a:" and one holding a control character
RouterNames == {<<97>>, <<>>, Name8, <<97, 58>>, <<97, 7>>}

NoCopy == [name |-> <<>>, source |-> "STORAGE_AUTO", dest |-> "STORAGE_AUTO",
           bytes |-> <<>>, ret |-> FALSE]
NoStream == [lines |-> <<>>, of |-> <<>>, ret |-> 0]
NoReceive == [data |-> <<>>, ret |-> 0, of |-> <<>>, lines |-> <<>>, max |-> 0, used |-> 0,
              past |-> FALSE]

\* state after the three plugin constructors and the router's constructor
RtConstructed ==
    /\ fsmInitialized = FALSE /\ currentStorageType = "STORAGE_AUTO"
    /\ sdInitialized = FALSE /\ cardPresent = FALSE /\ writeProtected = FALSE
    /\ sdFiles = <<>>
    /\ serialInitialized = FALSE
    /\ serialOut = NoStream /\ serialIn = NoStream /\ received = NoReceive
    /\ invalidDispatched = FALSE /\ lastCopy = NoCopy /\ lastCall = "none"

NoAuto == [ok |-> FALSE, name |-> <<>>, ret |-> 0]

\* the static counters start at 1 (part_010:539, part_008:277 and 282)
NamesConstructed ==
    /\ fileCounter = 1 /\ autoCounter = 1
    /\ generatedNames = <<>> /\ lastAuto = NoAuto

\* the selected plugin's writeFile(filename, data, size) and its effect on
\* the three plugins
PluginWriteRet(type, filename, data) ==
    CASE type = "STORAGE_SD_CARD" -> sdWriteFile(filename, data).ret
      [] type = "STORAGE_EEPROM" ->
           IF eepromInitialized THEN writeFile(CurrentFs, filename, data, 0).ret ELSE 0
      [] type = "STORAGE_SERIAL" -> streamFile(filename, data).ret
      [] OTHER -> 0

PluginWrite(type, filename, data) ==
    /\ IF type = "STORAGE_SD_CARD" THEN SdApply(sdWriteFile(filename, data))
                                   ELSE UNCHANGED sdFields
    /\ IF type = "STORAGE_EEPROM" /\ eepromInitialized
         THEN EepromWriteFile(filename, data, 0)
         ELSE UNCHANGED fsVars
    /\ serialOut' = IF type = "STORAGE_SERIAL" /\ streamFile(filename, data).ret > 0
                      THEN [lines |-> streamFile(filename, data).lines, of |-> data,
                            ret |-> streamFile(filename, data).ret]
                      ELSE NoStream

\* FileSystemManager::writeFile, part_008:282-322, with size > 0
fsmWriteFile(filename, data) ==
    IF fsmInitialized /\ isValidFilename(filename) /\ IsReady(currentStorageType)
      THEN PluginWrite(currentStorageType, filename, data)
      ELSE UNCHANGED <<sdFields, fsVars>> /\ serialOut' = NoStream

\* FileSystemManager::initialize, part_008:20-76, with all plugins
\* registered: SDCardStoragePlugin::initialize (part_007:10-52, beginOk is
\* the result of SD.begin), EEPROMStoragePlugin::initialize (chip: the JEDEC
\* id is neither 0x000000 nor 0xFFFFFF), SerialStoragePlugin::initialize
RouterInitialize ==
    /\ ~fsmInitialized
    /\ \E beginOk \in BOOLEAN, chip \in BOOLEAN :
         /\ IF sdInitialized THEN UNCHANGED <<cardPresent, writeProtected>>
              ELSE /\ cardPresent' = (CardIn /\ beginOk)
                   /\ writeProtected' = CardLocked
         /\ IF chip /\ ~eepromInitialized THEN EepromInitialize ELSE UNCHANGED fsVars
    /\ sdInitialized' = TRUE
    /\ serialInitialized' = TRUE
    /\ currentStorageType' = autoDetectStorage(cardPresent' /\ ~writeProtected',
                                               eepromInitialized', txRoom)
    /\ fsmInitialized' = TRUE
    /\ lastCopy' = NoCopy
    /\ lastCall' = "initialize"
    /\ UNCHANGED <<nmVars, xtVars>>
    /\ serialOut' = NoStream
    /\ UNCHANGED <<sdDetectPin, sdWriteProtectPin, sdFiles, txRoom, serialIn,
                   received, invalidDispatched, rxVars>>

\* a setStorageType that does not ask the plugin whether it is ready
setStorageTypeResult_Unchecked(type, current) ==
    IF fsmInitialized THEN [ok |-> TRUE, type |-> type]
                      ELSE [ok |-> FALSE, type |-> current]

\* FileSystemManager::setStorageType, part_008:205-227: the value returned
\* and the selection it leaves, current being the selection before the call
\* (getPluginByType gives no plugin for STORAGE_AUTO or an unknown kind)
setStorageTypeResult(type, current) ==
    IF fsmInitialized /\ IsReady(type)
      THEN [ok |-> TRUE, type |-> type]
      ELSE [ok |-> FALSE, type |-> current]

setStorageType(type) ==
    currentStorageType' = setStorageTypeResult(type, currentStorageType).type

\* an update() that re-runs the selection rule on every tick, whether or
\* not the selected plugin is ready
RouterUpdate_AlwaysAuto ==
    /\ fsmInitialized
    /\ LET newType == autoDetectStorage(sdIsReady, eepromInitialized, serialIsReady)
       IN IF newType # currentStorageType
            THEN setStorageType(newType)
            ELSE UNCHANGED currentStorageType
    /\ lastCopy' = NoCopy
    /\ lastCall' = "update"
    /\ UNCHANGED <<nmVars, xtVars>>
    /\ serialOut' = NoStream
    /\ UNCHANGED <<fsmInitialized, sdInitialized, sdFields, sdDetectPin, sdWriteProtectPin,
                   serialInitialized, txRoom, serialIn, received,
                   invalidDispatched, fsVars, rxVars>>

\* FileSystemManager::update, part_008:78-96
RouterUpdate ==
    /\ fsmInitialized
    /\ IF ~IsReady(currentStorageType)
         THEN LET newType == autoDetectStorage(sdIsReady, eepromInitialized, serialIsReady)
              IN IF newType # currentStorageType
                   THEN setStorageType(newType)
                   ELSE UNCHANGED currentStorageType
         ELSE UNCHANGED currentStorageType
    /\ lastCopy' = NoCopy
    /\ lastCall' = "update"
    /\ UNCHANGED <<nmVars, xtVars>>
    /\ serialOut' = NoStream
    /\ UNCHANGED <<fsmInitialized, sdInitialized, sdFields, sdDetectPin, sdWriteProtectPin,
                   serialInitialized, txRoom, serialIn, received,
                   invalidDispatched, fsVars, rxVars>>

\* the operator selects a storage
SetStorageType ==
    /\ fsmInitialized
    /\ \E type \in StorageTypes : setStorageType(type)
    /\ lastCopy' = NoCopy
    /\ lastCall' = "other"
    /\ UNCHANGED <<nmVars, xtVars>>
    /\ serialOut' = NoStream
    /\ UNCHANGED <<fsmInitialized, sdInitialized, sdFields, sdDetectPin, sdWriteProtectPin,
                   serialInitialized, txRoom, serialIn, received,
                   invalidDispatched, fsVars, rxVars>>

\* the card is pulled out or pushed in (its lock switch stays as it is)
CardChange ==
    /\ sdDetectPin' = IF sdDetectPin = "LOW" THEN "HIGH" ELSE "LOW"
    /\ lastCopy' = NoCopy
    /\ lastCall' = "other"
    /\ UNCHANGED <<nmVars, xtVars>>
    /\ serialOut' = NoStream
    /\ UNCHANGED <<fsmInitialized, currentStorageType, sdInitialized, sdFields,
                   sdWriteProtectPin, serialInitialized, txRoom, serialIn, received,
                   invalidDispatched, fsVars, rxVars>>

\* the UART's transmit buffer fills up or drains
TxChange ==
    /\ txRoom' = ~txRoom
    /\ lastCopy' = NoCopy
    /\ lastCall' = "other"
    /\ UNCHANGED <<nmVars, xtVars>>
    /\ UNCHANGED <<fsmInitialized, currentStorageType, sdInitialized, sdFields,
                   sdDetectPin, sdWriteProtectPin, serialInitialized, serialOut,
                   serialIn, received, invalidDispatched, fsVars, rxVars>>

\* FileSystemManager::writeFile called by the operator surface
RtWriteFile ==
    /\ fsmInitialized
    /\ \E filename \in RouterNames, data \in RouterData : fsmWriteFile(filename, data)
    /\ lastCopy' = NoCopy
    /\ lastCall' = "other"
    /\ UNCHANGED <<nmVars, xtVars>>
    /\ UNCHANGED <<fsmInitialized, currentStorageType, sdInitialized, sdDetectPin,
                   sdWriteProtectPin, serialInitialized, txRoom, serialIn, received,
                   invalidDispatched, rxVars>>

\* FileSystemManager::readFile, part_008:342-382, into MaxFileSize bytes
RtReadFile ==
    /\ fsmInitialized
    /\ \E filename \in RouterNames :
         IF isValidFilename(filename) /\ IsReady(currentStorageType)
           THEN /\ IF currentStorageType = "STORAGE_SD_CARD"
                     THEN SdApply(sdReadFile(filename, MaxFileSize))
                     ELSE UNCHANGED sdFields
                /\ IF currentStorageType = "STORAGE_EEPROM"
                     THEN EepromReadFile(filename, MaxFileSize)
                     ELSE UNCHANGED fsVars
           ELSE UNCHANGED <<sdFields, fsVars>>
    /\ lastCopy' = NoCopy
    /\ lastCall' = "other"
    /\ UNCHANGED <<nmVars, xtVars>>
    /\ serialOut' = NoStream
    /\ UNCHANGED <<fsmInitialized, currentStorageType, sdInitialized, sdDetectPin,
                   sdWriteProtectPin, serialInitialized, txRoom, serialIn,
                   received, invalidDispatched, rxVars>>

\* FileSystemManager::deleteFile, part_008:443-457: the name goes to the
\* selected plugin's deleteFile as it is
RtDeleteFile ==
    /\ fsmInitialized
    /\ \E filename \in RouterNames :
         /\ IF currentStorageType = "STORAGE_SD_CARD"
              THEN SdApply(sdDeleteFile(filename))
              ELSE UNCHANGED sdFields
         /\ IF currentStorageType = "STORAGE_EEPROM" /\ eepromInitialized
              THEN EepromDeleteFile(filename, 0)
              ELSE UNCHANGED fsVars
         /\ invalidDispatched' = (invalidDispatched \/ ~isValidFilename(filename))
    /\ lastCopy' = NoCopy
    /\ lastCall' = "other"
    /\ UNCHANGED <<nmVars, xtVars>>
    /\ serialOut' = NoStream
    /\ UNCHANGED <<fsmInitialized, currentStorageType, sdInitialized, sdDetectPin,
                   sdWriteProtectPin, serialInitialized, txRoom, serialIn,
                   received, rxVars>>

\* FileSystemManager::fileExists, part_008:459-465
RtFileExists ==
    /\ fsmInitialized
    /\ \E filename \in RouterNames :
         invalidDispatched' = (invalidDispatched \/ ~isValidFilename(filename))
    /\ lastCopy' = NoCopy
    /\ lastCall' = "other"
    /\ UNCHANGED <<nmVars, xtVars>>
    /\ serialOut' = NoStream
    /\ UNCHANGED <<fsmInitialized, currentStorageType, sdInitialized, sdFields,
                   sdDetectPin, sdWriteProtectPin, serialInitialized, txRoom,
                   serialIn, received, fsVars, rxVars>>

\* FileSystemManager::getFileSize, part_008:467-473
RtGetFileSize ==
    /\ fsmInitialized
    /\ \E filename \in RouterNames :
         invalidDispatched' = (invalidDispatched \/ ~isValidFilename(filename))
    /\ lastCopy' = NoCopy
    /\ lastCall' = "other"
    /\ UNCHANGED <<nmVars, xtVars>>
    /\ serialOut' = NoStream
    /\ UNCHANGED <<fsmInitialized, currentStorageType, sdInitialized, sdFields,
                   sdDetectPin, sdWriteProtectPin, serialInitialized, txRoom,
                   serialIn, received, fsVars, rxVars>>

\* the bytes the source holds under the name: the card's file, or the data
\* of the first ACTIVE directory entry that carries the name
SourceBytes(type, filename) ==
    CASE type = "STORAGE_SD_CARD" ->
           IF sdFileExists(filename) THEN sdFiles[filename] ELSE <<>>
      [] type = "STORAGE_EEPROM" ->
           LET stored == SubSeq(filename, 1, Min(Len(filename), MAX_FILENAME_LENGTH - 1))
               Holds(i) == /\ IsActive(directory[i])
                           /\ [k \in 1..safeStrlen(directory[i].filename) |->
                                  ToLower(directory[i].filename[k])]
                                = [k \in 1..Len(stored) |-> ToLower(stored[k])]
           IN IF \E i \in Slots : Holds(i)
                THEN LET i == CHOOSE k \in Slots : Holds(k) /\ \A l \in 1..(k - 1) : ~Holds(l)
                     IN readData(flash, Val(directory[i].startSector) * EEPROM_SECTOR_SIZE,
                                 Val(directory[i].sizeBytes))
                ELSE <<>>
      [] OTHER -> <<>>

\* the destination can take the file: a free slot and sectors on the flash,
\* room on the card
HasRoom(type, filename, size) ==
    CASE type = "STORAGE_SD_CARD" ->
           size + (IF filename \in DOMAIN sdFiles THEN Len(sdFiles[filename]) ELSE 0)
             <= MaxSdFile
      [] type = "STORAGE_EEPROM" ->
           /\ findEmptyEntry(directory) # 0
           /\ allocateSectors(nextFreeSector, size).start # 0
      [] OTHER -> TRUE

\* FileSystemManager::copyFile, part_008:384-441, between two of the three
\* plugins (STORAGE_AUTO has no plugin and the call returns false).  It is
\* reachable before initialize(), where no plugin is ready and it returns
\* false.
RtCopyFile ==
    /\ fsmInitialized
    /\ \E filename \in {<<97>>, Name8},
          sourceType \in StorageTypes \ {"STORAGE_AUTO"},
          destType \in StorageTypes \ {"STORAGE_AUTO"} :
         LET both == sourceType # destType /\ IsReady(sourceType) /\ IsReady(destType)
             entry == findFileEntry(directory, filename)
             exists == CASE sourceType = "STORAGE_SD_CARD" -> sdFileExists(filename)
                         [] sourceType = "STORAGE_EEPROM" -> entry # 0
                         [] OTHER -> FALSE
             fileSize == CASE sourceType = "STORAGE_SD_CARD" -> sdGetFileSize(filename)
                           [] sourceType = "STORAGE_EEPROM" ->
                                IF entry # 0 THEN Val(directory[entry].sizeBytes) ELSE 0
                           [] OTHER -> 0
             canRead == both /\ exists /\ fileSize # 0 /\ fileSize <= TRANSFER_BUFFER_SIZE
             fromSd == sdReadFile(filename, fileSize)
             fromEeprom == readFile(CurrentFs, filename, fileSize)
             nRead == IF sourceType = "STORAGE_SD_CARD" THEN fromSd.ret ELSE fromEeprom.ret
             transferBuffer == IF sourceType = "STORAGE_SD_CARD" THEN fromSd.buf
                               ELSE SubSeq(fromEeprom.buf, 1, nRead)
             doWrite == canRead /\ nRead = fileSize
             content == SourceBytes(sourceType, filename)
         IN /\ IF doWrite /\ destType = "STORAGE_SD_CARD"
                 THEN SdApply(sdWriteFile(filename, transferBuffer))
                 ELSE IF canRead /\ sourceType = "STORAGE_SD_CARD"
                   THEN SdApply(fromSd)
                   ELSE UNCHANGED sdFields
            /\ IF doWrite /\ destType = "STORAGE_EEPROM"
                 THEN EepromWriteFile(filename, transferBuffer, 0)
                 ELSE IF canRead /\ sourceType = "STORAGE_EEPROM"
                   THEN EepromReadFile(filename, fileSize)
                   ELSE UNCHANGED fsVars
            /\ serialOut' = IF doWrite /\ destType = "STORAGE_SERIAL"
                                 /\ streamFile(filename, transferBuffer).ret > 0
                              THEN [lines |-> streamFile(filename, transferBuffer).lines,
                                    of |-> transferBuffer,
                                    ret |-> streamFile(filename, transferBuffer).ret]
                              ELSE NoStream
            /\ invalidDispatched' =
                 (invalidDispatched \/ (both /\ ~isValidFilename(filename)))
            /\ lastCopy' =
                 IF /\ both /\ isValidFilename(filename)
                    /\ content # <<>> /\ Len(content) <= TRANSFER_BUFFER_SIZE
                    /\ HasRoom(destType, filename, Len(content))
                   THEN [name |-> filename, source |-> sourceType, dest |-> destType,
                         bytes |-> content,
                         ret |-> doWrite /\ PluginWriteRet(destType, filename,
                                                           transferBuffer) = nRead]
                   ELSE NoCopy
    /\ lastCall' = "other"
    /\ UNCHANGED <<nmVars, xtVars>>
    /\ UNCHANGED <<fsmInitialized, currentStorageType, sdInitialized, sdDetectPin,
                   sdWriteProtectPin, serialInitialized, txRoom, serialIn, received,
                   rxVars>>

RouterNext ==
    \/ RouterInitialize
    \/ RouterUpdate
    \/ SetStorageType
    \/ CardChange
    \/ TxChange
    \/ RtWriteFile
    \/ RtReadFile
    \/ RtDeleteFile
    \/ RtFileExists
    \/ RtGetFileSize
    \/ RtCopyFile

(***************************************************************************)
(* The serial plugin driven directly, with a host on the other end of the  *)
(* link                                                                    *)
(***************************************************************************)
HexNames == {<<65>>}

\* payloads: every sequence of 1..MaxHexShort bytes over {0x10, 0xEF}, and
\* a fixed pattern at the lengths around a group of 8 and a full line
HexData ==
    UNION {[1..n -> {16, 239}] : n \in 1..MaxHexShort}
      \cup {[i \in 1..n |-> (i * 37) % 256] :
               n \in {8, 9, HEX_BYTES_PER_LINE, HEX_BYTES_PER_LINE + 1}}

\* "DEAD BEEF"
DEAD_BEEF == <<68, 69, 65, 68, 32, 66, 69, 69, 70>>

\* "ABORT:Transfer aborted", the line abortTransfer (lines 349-362) sends
ABORT_LINE == <<65, 66, 79, 82, 84, 58, 84, 114, 97, 110, 115, 102, 101, 114, 32, 97, 98, 111, 114, 116, 101, 100>>

\* "PROGRESS:A:1024/2048 (50%)", a line of sendProgressUpdate (lines 382-401)
PROGRESS_LINE == <<80, 82, 79, 71, 82, 69, 83, 83, 58, 65, 58, 49, 48, 50, 52, 47, 50, 48, 52, 56, 32, 40, 53, 48, 37, 41>>

\* what a host sends on its own: grouped digits; a framed transfer; data
\* after the END line; an aborted transfer followed by data; a progress
\* line inside a transfer; a line that ends with its ':' ("A:") after a
\* data line; a line with one character after its ':' ("A:1").
HostStreams ==
    {<<DEAD_BEEF>>,
     <<BEGIN_TAG \o <<65>>, <<49, 48, 50, 48>>, END_TAG \o <<65>>>>,
     <<<<49, 48>>, END_TAG \o <<65>>, <<50, 48>>>>,
     <<<<49, 48>>, ABORT_LINE, <<50, 48>>>>,
     <<BEGIN_TAG \o <<65>>, PROGRESS_LINE, <<49, 48>>>>,
     <<<<49, 48>>, <<65, 58>>>>,
     <<<<65, 58, 49>>>>}

\* what the pair loop may decode from the memory behind a line's terminator
JunkOutcomes == {<<>>, <<255>>, <<255, 255, 255>>}

\* buffer sizes handed to receiveFile
ReceiveSizes == {2, 2 * HEX_BYTES_PER_LINE}

\* SerialStoragePlugin::initialize, lines 12-30
SerialInitialize ==
    /\ ~serialInitialized
    /\ serialInitialized' = TRUE
    /\ UNCHANGED <<fsmInitialized, currentStorageType, sdInitialized, sdFields,
                   sdDetectPin, sdWriteProtectPin, txRoom, serialOut, serialIn, received,
                   invalidDispatched, lastCopy, lastCall, nmVars, xtVars, fsVars, rxVars>>

\* SerialStoragePlugin::writeFile(filename, data, size)
SerialWriteFile ==
    /\ \E filename \in HexNames, data \in HexData :
         PluginWrite("STORAGE_SERIAL", filename, data)
    /\ serialIn' = NoStream /\ received' = NoReceive
    /\ UNCHANGED <<fsmInitialized, currentStorageType, sdInitialized,
                   sdDetectPin, sdWriteProtectPin, serialInitialized, txRoom,
                   invalidDispatched, lastCopy, lastCall, nmVars, xtVars, rxVars>>

\* the host sends back the lines of the last transfer
HostEcho ==
    /\ serialOut # NoStream
    /\ serialIn' = serialOut
    /\ serialOut' = NoStream /\ received' = NoReceive
    /\ UNCHANGED <<fsmInitialized, currentStorageType, sdInitialized, sdFields,
                   sdDetectPin, sdWriteProtectPin, serialInitialized, txRoom,
                   invalidDispatched, lastCopy, lastCall, nmVars, xtVars, fsVars, rxVars>>

\* the host sends lines of its own
HostSend ==
    /\ \E lines \in HostStreams : serialIn' = [lines |-> lines, of |-> <<>>, ret |-> 0]
    /\ serialOut' = NoStream /\ received' = NoReceive
    /\ UNCHANGED <<fsmInitialized, currentStorageType, sdInitialized, sdFields,
                   sdDetectPin, sdWriteProtectPin, serialInitialized, txRoom,
                   invalidDispatched, lastCopy, lastCall, nmVars, xtVars, fsVars, rxVars>>

\* SerialStoragePlugin::receiveFile(data, maxSize, timeoutMs) with the lines
\* the host has sent waiting on the link
SerialReceiveFile ==
    /\ \E maxSize \in ReceiveSizes, junk \in JunkOutcomes :
         LET r == receiveFile(serialIn.lines, maxSize, junk) IN
         /\ received' = IF serialIsReady
                           THEN [data |-> r.data, ret |-> Len(r.data), of |-> serialIn.of,
                                 lines |-> serialIn.lines, max |-> maxSize,
                                 used |-> r.used, past |-> r.past]
                           ELSE NoReceive
         /\ serialIn' = [lines |-> SubSeq(serialIn.lines, r.used + 1, Len(serialIn.lines)),
                         of |-> <<>>, ret |-> 0]
    /\ UNCHANGED <<fsmInitialized, currentStorageType, sdInitialized, sdFields,
                   sdDetectPin, sdWriteProtectPin, serialInitialized, txRoom, serialOut,
                   invalidDispatched, lastCopy, lastCall, nmVars, xtVars, fsVars, rxVars>>

HexNext ==
    \/ SerialInitialize
    \/ TxChange
    \/ SerialWriteFile
    \/ HostEcho
    \/ HostSend
    \/ SerialReceiveFile

(***************************************************************************)
(* The run loop hands a drained chunk to the router                        *)
(***************************************************************************)
\* the name snprintf(filename, sizeof(filename), "data_%04d.bin", fileCounter++)
\* leaves in char filename[MAX_FILENAME_LENGTH] while fileCounter < 100:
\* the first seven characters, "data_00"
GeneratedName == <<100, 97, 116, 97, 95, 48, 48>>

\* processParallelPortData, part_010:533-564: the chunk goes to
\* FileSystemManager::writeFile
LoopStoreChunk ==
    /\ pc = "rb_done" /\ rbRet = "tick_store"
    /\ pc' = "tick_check"
    /\ IF bytesRead > 0
         THEN fsmWriteFile(GeneratedName, dest)
         ELSE UNCHANGED <<sdFields, fsVars>> /\ serialOut' = NoStream
    /\ UNCHANGED <<ringVars, statVars, initialized, captureEnabled, attached, pinVars,
                   rbLocals, fifo, ghostIsr, drainExpect, drainQuiet, surfaced, latched>>
    /\ UNCHANGED <<fsmInitialized, currentStorageType, sdInitialized, sdDetectPin,
                   sdWriteProtectPin, serialInitialized, txRoom, serialIn, received,
                   invalidDispatched, lastCopy, lastCall, nmVars, xtVars>>

(***************************************************************************)
(* Generated file names                                                    *)
(***************************************************************************)
\* names followed per run
MaxNames == 4

\* printf's "%04d" of a uint16_t: int has 16 bits on the ATmega2560, so a
\* value above 32767 is printed as the negative int with the same bits; the
\* field is padded with zeros to 4 characters, sign included
Format04d(v) ==
    LET n == IF v >= 32768 THEN v - 65536 ELSE v
        digits == Decimal(IF n < 0 THEN -n ELSE n)
        width == IF n < 0 THEN 3 ELSE 4
        zeros == [k \in 1..(IF Len(digits) >= width THEN 0 ELSE width - Len(digits)) |-> 48]
    IN (IF n < 0 THEN <<45>> ELSE <<>>) \o zeros \o digits

\* snprintf(dest, destSize, ...): at most destSize - 1 characters are stored
Snprintf(text, destSize) ==
    SubSeq(text, 1, Min(Len(text), destSize - 1))

\* part_010:535-540: snprintf(filename, sizeof(filename), "data_%04d.bin",
\* fileCounter++) into char filename[MAX_FILENAME_LENGTH]
SynthesizedName(counter) ==
    Snprintf(<<100, 97, 116, 97, 95>> \o Format04d(counter) \o <<46, 98, 105, 110>>, MAX_FILENAME_LENGTH)

\* FileSystemManager::generateUniqueFilename, part_008:267-284 (both
\* branches format the same way, each with a static counter of its own)
generateUniqueFilename(prefix, extension, destSize, counter) ==
    IF destSize < 16 THEN [ok |-> FALSE, name |-> <<>>, counter |-> counter]
    ELSE [ok |-> TRUE,
          name |-> Snprintf(prefix \o <<95>> \o Format04d(counter) \o extension, destSize),
          counter |-> (counter + 1) % 65536]

\* processParallelPortData, part_010:533-543, on a pass that read a chunk:
\* the name is synthesized and the chunk handed to FileSystemManager::writeFile
NameChunk ==
    /\ Len(generatedNames) < MaxNames
    /\ \E data \in RouterData : fsmWriteFile(SynthesizedName(fileCounter), data)
    /\ generatedNames' = Append(generatedNames, SynthesizedName(fileCounter))
    /\ fileCounter' = (fileCounter + 1) % 65536
    /\ UNCHANGED <<autoCounter, lastAuto>>
    /\ UNCHANGED <<fsmInitialized, currentStorageType, sdInitialized, sdDetectPin,
                   sdWriteProtectPin, serialInitialized, txRoom, serialIn, received,
                   invalidDispatched, lastCopy, lastCall, rxVars, xtVars>>

AutoPrefixes == {<<100>>}
AutoExtensions == {<<>>, <<46, 98>>}

\* FileSystemManager::writeFileAuto, part_008:325-343, with no generatedName
\* buffer: the name is generated into char filename[MAX_FILENAME_LENGTH]
WriteFileAuto ==
    /\ \E prefix \in AutoPrefixes, extension \in AutoExtensions, data \in RouterData :
         LET r == generateUniqueFilename(prefix, extension, MAX_FILENAME_LENGTH,
                                         autoCounter)
             dispatched == /\ r.ok /\ fsmInitialized /\ isValidFilename(r.name)
                           /\ IsReady(currentStorageType)
         IN /\ autoCounter' = r.counter
            /\ IF r.ok
                 THEN fsmWriteFile(r.name, data)
                 ELSE UNCHANGED <<sdFields, fsVars>> /\ serialOut' = NoStream
            /\ lastAuto' = [ok |-> r.ok, name |-> r.name,
                            ret |-> IF dispatched
                                      THEN PluginWriteRet(currentStorageType, r.name, data)
                                      ELSE 0]
    /\ UNCHANGED <<fileCounter, generatedNames>>
    /\ UNCHANGED <<fsmInitialized, currentStorageType, sdInitialized, sdDetectPin,
                   sdWriteProtectPin, serialInitialized, txRoom, serialIn, received,
                   invalidDispatched, lastCopy, lastCall, rxVars, xtVars>>

NamesNext ==
    \/ RouterInitialize
    \/ NameChunk
    \/ WriteFileAuto

RxNext ==
    \/ Strobe
    \/ InitializeAttach
    \/ InitializeFinish
    \/ Reset
    \/ SetCaptureEnabled
    \/ ClearBuffer
    \/ ClearBufferOverflow
    \/ ReadData
    \/ RbTest
    \/ RbCopy
    \/ RbStore
    \/ ReadDataReturn
    \/ LoopUpdateAll
    \/ LoopProcessData
    \/ LoopStoreChunk
    \/ LoopOverflowCheck

\* the capture path of loop(): strobes, and the tick that drains the queue
\* into the router
CaptureNext ==
    \/ Strobe
    \/ LoopUpdateAll
    \/ LoopProcessData
    \/ RbTest
    \/ RbCopy
    \/ RbStore
    \/ LoopStoreChunk
    \/ LoopOverflowCheck

(***************************************************************************)
(* Statistics getters.  The counters are volatile uint32_t fields and the  *)
(* getters return them with interrupts enabled: on the 8-bit core the read *)
(* is four byte loads, and the strobe interrupt may run between two.       *)
(***************************************************************************)
\* getTotalBytesReceived, getOverflowCount, getInterruptStats
StatNames == {"bytes_total", "overflows", "interrupts_total"}

\* the field behind each getter (part_010:236-248)
Counter(which) ==
    CASE which = "bytes_total" -> bytesReceived
      [] which = "overflows" -> overflowCount
      [] which = "interrupts_total" -> totalInterrupts

StatBytes == 0..3

Pow256(k) == CASE k = 0 -> 1 [] k = 1 -> 256 [] k = 2 -> 65536 [] k = 3 -> 16777216

ByteOf(v, k) == (v \div Pow256(k)) % 256

RegValue(reg) == reg[0] + reg[1] * 256 + reg[2] * 65536 + reg[3] * 16777216

NoSnapshot == [which |-> "none", value |-> 0, first |-> 0, last |-> 0]

ZeroReg == [k \in StatBytes |-> 0]

\* entry of a getter from the run loop
GetStatistic ==
    /\ pc = "idle"
    /\ \E which \in StatNames :
         /\ snWhich' = which
         /\ snFirst' = Counter(which)
    /\ snLoaded' = {} /\ snReg' = ZeroReg
    /\ pc' = "st_load"
    /\ UNCHANGED <<snResult, cyVars>>
    /\ UNCHANGED <<ringVars, statVars, initialized, captureEnabled, attached, pinVars,
                   rbLocals, fifo, ghostIsr, drainExpect, drainQuiet, surfaced, latched>>
    /\ UNCHANGED <<fsVars, rtVars, nmVars>>

\* one byte load of "return <counter>;" (the order of the four loads is the
\* compiler's); the fourth load completes the return value
GetLoad ==
    /\ pc = "st_load"
    /\ \E k \in StatBytes \ snLoaded :
         LET reg == [snReg EXCEPT ![k] = ByteOf(Counter(snWhich), k)]
             done == snLoaded \cup {k} = StatBytes
         IN IF done
              THEN /\ snResult' = [which |-> snWhich, value |-> RegValue(reg),
                                   first |-> snFirst, last |-> Counter(snWhich)]
                   /\ snWhich' = "none" /\ snLoaded' = {} /\ snReg' = ZeroReg
                   /\ snFirst' = 0
                   /\ pc' = "idle"
              ELSE /\ snReg' = reg /\ snLoaded' = snLoaded \cup {k}
                   /\ pc' = "st_load"
                   /\ UNCHANGED <<snWhich, snFirst, snResult>>
    /\ UNCHANGED cyVars
    /\ UNCHANGED <<ringVars, statVars, initialized, captureEnabled, attached, pinVars,
                   rbLocals, fifo, ghostIsr, drainExpect, drainQuiet, surfaced, latched>>
    /\ UNCHANGED <<fsVars, rtVars, nmVars>>

(***************************************************************************)
(* test_ringbuffer_concurrent_operations: 20 cycles of a producer loop and *)
(* a consumer loop on one RingBufferTest object.  The test's assertions    *)
(* are recorded as failure counts instead of ending the run.               *)
(***************************************************************************)
TEST_RING_BUFFER_SIZE == 16

TestCycles == 20

\* RingBufferTest(): part_012 lines 18-20
EmptyRing ==
    [buffer |-> [k \in 0..(TEST_RING_BUFFER_SIZE - 1) |-> 0],
     head |-> 0, tail |-> 0, count |-> 0, overflowFlag |-> FALSE]

\* a write that overwrites the oldest byte when the buffer is full
RingBufferTest_write_Overwrite(r, data) ==
    IF r.count >= TEST_RING_BUFFER_SIZE
      THEN [ok |-> TRUE,
            rb |-> [r EXCEPT !.buffer[r.head] = data,
                             !.head = (r.head + 1) % TEST_RING_BUFFER_SIZE,
                             !.tail = (r.tail + 1) % TEST_RING_BUFFER_SIZE]]
      ELSE [ok |-> TRUE,
            rb |-> [r EXCEPT !.buffer[r.head] = data,
                             !.head = (r.head + 1) % TEST_RING_BUFFER_SIZE,
                             !.count = r.count + 1]]

\* RingBufferTest::write, the same code as RingBuffer::write
RingBufferTest_write(r, data) ==
    IF r.count >= TEST_RING_BUFFER_SIZE
      THEN [ok |-> FALSE, rb |-> [r EXCEPT !.overflowFlag = TRUE]]
      ELSE [ok |-> TRUE,
            rb |-> [r EXCEPT !.buffer[r.head] = data,
                             !.head = (r.head + 1) % TEST_RING_BUFFER_SIZE,
                             !.count = r.count + 1]]

\* RingBufferTest::read, the same code as RingBuffer::read
RingBufferTest_read(r) ==
    IF r.count = 0
      THEN [ok |-> FALSE, rb |-> r]
      ELSE [ok |-> TRUE,
            rb |-> [r EXCEPT !.tail = (r.tail + 1) % TEST_RING_BUFFER_SIZE,
                             !.count = r.count - 1]]

\* the state the harness variables have when no getter runs and the test
\* has constructed its buffer
HarnessIdle ==
    /\ snWhich = "none" /\ snLoaded = {} /\ snReg = ZeroReg /\ snFirst = 0
    /\ snResult = NoSnapshot
    /\ rb = EmptyRing /\ cycle = 0 /\ cyPhase = "write" /\ cyI = 0
    /\ writeFails = 0 /\ readFails = 0 /\ firstFail = -1

\* one iteration of the producer loop, lines 412-414
CycleWrite ==
    /\ cyPhase = "write"
    /\ LET w == RingBufferTest_write(rb, (cycle + cyI) % 256)
           last == cyI + 1 >= (TEST_RING_BUFFER_SIZE * 3) \div 4
       IN /\ rb' = w.rb
          /\ writeFails' = IF w.ok THEN writeFails ELSE writeFails + 1
          /\ firstFail' = IF ~w.ok /\ firstFail = -1 THEN cycle ELSE firstFail
          /\ cyI' = IF last THEN 0 ELSE cyI + 1
          /\ cyPhase' = IF last THEN "read" ELSE "write"
    /\ UNCHANGED <<cycle, readFails, snVars>>
    /\ UNCHANGED <<rxVars, fsVars, rtVars, nmVars>>

\* one iteration of the consumer loop, lines 417-420; the last one ends the
\* cycle (lines 422-424 inspect the buffer, line 410 counts the cycle)
CycleRead ==
    /\ cyPhase = "read"
    /\ LET r == RingBufferTest_read(rb)
           last == cyI + 1 >= TEST_RING_BUFFER_SIZE \div 2
       IN /\ rb' = r.rb
          /\ readFails' = IF r.ok THEN readFails ELSE readFails + 1
          /\ cyI' = IF last THEN 0 ELSE cyI + 1
          /\ cycle' = IF last THEN cycle + 1 ELSE cycle
          /\ cyPhase' = IF ~last THEN "read"
                        ELSE IF cycle + 1 < TestCycles THEN "write" ELSE "done"
    /\ UNCHANGED <<writeFails, firstFail, snVars>>
    /\ UNCHANGED <<rxVars, fsVars, rtVars, nmVars>>

StatsNext ==
    \/ Strobe
    \/ GetStatistic
    \/ GetLoad

CycleNext ==
    \/ CycleWrite
    \/ CycleRead

(***************************************************************************)
(* Specifications                                                          *)
(***************************************************************************)
\* the receiver, with the filesystem left as constructed on a blank chip
RxSpecInit ==
    /\ RxInit
    /\ FsConstructed
    /\ flash = Medium([i \in Slots |-> ErasedEntry])
    /\ RtConstructed
    /\ NamesConstructed
    /\ HarnessIdle
    /\ sdDetectPin = "HIGH" /\ sdWriteProtectPin = "LOW" /\ txRoom = TRUE

SpecRx == RxSpecInit /\ [][RxNext]_vars

\* the filesystem, with the receiver left as constructed
FsSpecInit ==
    /\ FsInit
    /\ RxInit
    /\ RtConstructed
    /\ NamesConstructed
    /\ HarnessIdle
    /\ sdDetectPin = "HIGH" /\ sdWriteProtectPin = "LOW" /\ txRoom = TRUE

SpecFs == FsSpecInit /\ [][FsNext]_vars

\* the router over the three plugins, from construction, with a blank flash
\* chip, an empty card in any position and the receiver left as constructed
RouterSpecInit ==
    /\ RxInit
    /\ FsConstructed
    /\ flash = Medium([i \in Slots |-> ErasedEntry])
    /\ RtConstructed
    /\ NamesConstructed
    /\ HarnessIdle
    /\ sdDetectPin \in {"LOW", "HIGH"} /\ sdWriteProtectPin \in {"LOW", "HIGH"}
    /\ txRoom = TRUE

SpecRouter == RouterSpecInit /\ [][RouterNext]_vars

\* the serial plugin alone
HexSpecInit ==
    /\ RxInit
    /\ FsConstructed
    /\ flash = Medium([i \in Slots |-> ErasedEntry])
    /\ RtConstructed
    /\ NamesConstructed
    /\ HarnessIdle
    /\ sdDetectPin = "HIGH" /\ sdWriteProtectPin = "LOW" /\ txRoom = TRUE

SpecHex == HexSpecInit /\ [][HexNext]_vars

\* the capture path after setup(): the receiver initialized and enabled, no
\* card, the router initialized with the flash plugin selected and the chip
\* freshly formatted
CaptureSpecInit ==
    /\ buffer = [i \in 0..(RING_BUFFER_SIZE - 1) |-> 0]
    /\ head = 0 /\ tail = 0 /\ count = 0 /\ overflowFlag = FALSE
    /\ initialized = TRUE /\ captureEnabled = TRUE
    /\ bytesReceived = 0 /\ overflowCount = 0 /\ totalInterrupts = 0
    /\ attached = TRUE /\ busyPin = FALSE /\ ackPin = TRUE
    /\ pc = "idle" /\ rbRet = "idle" /\ maxBytes = 0 /\ bytesRead = 0
    /\ dest = <<>> /\ tmpCount = 0
    /\ fifo = <<>> /\ dropped = 0 /\ strobes = 0 /\ served = 0 /\ lastStrobe = "none"
    /\ isrTrace = <<>> /\ drainExpect = <<>> /\ drainQuiet = TRUE
    /\ surfaced = 0 /\ latched = FALSE
    /\ LET blank == Medium([i \in Slots |-> ErasedEntry])
           st == format(loadDirectory(BeginCall(blank)), 0).st
       IN /\ flash = EndCall(st.m)
          /\ directory = st.dir
          /\ nextFreeSector = st.next
          /\ totalFiles = st.total /\ deletedFiles = st.deleted
    /\ eepromInitialized = TRUE
    /\ lastRead = NoRead /\ lastWrite = NoWrite
    /\ faultsLeft = 0
    /\ lineage = "format" /\ disjointAtMount = TRUE
    /\ fsmInitialized = TRUE /\ currentStorageType = "STORAGE_EEPROM"
    /\ sdInitialized = TRUE /\ cardPresent = FALSE /\ writeProtected = FALSE
    /\ sdDetectPin = "HIGH" /\ sdWriteProtectPin = "LOW"
    /\ sdFiles = <<>>
    /\ serialInitialized = TRUE /\ txRoom = TRUE
    /\ serialOut = NoStream /\ serialIn = NoStream /\ received = NoReceive
    /\ invalidDispatched = FALSE /\ lastCopy = NoCopy /\ lastCall = "none"
    /\ NamesConstructed
    /\ HarnessIdle

SpecCapture == CaptureSpecInit /\ [][CaptureNext]_vars

\* name generation: the router as constructed, no card in the slot, the
\* capture counter at 1 or, after that many captures, at 98 or 9998
StartCounters == {1, 98, 9998}

NamesSpecInit ==
    /\ RxInit
    /\ FsConstructed
    /\ flash = Medium([i \in Slots |-> ErasedEntry])
    /\ RtConstructed
    /\ HarnessIdle
    /\ sdDetectPin = "HIGH" /\ sdWriteProtectPin = "LOW" /\ txRoom = TRUE
    /\ fileCounter \in StartCounters /\ autoCounter = 1
    /\ generatedNames = <<>> /\ lastAuto = NoAuto

SpecNames == NamesSpecInit /\ [][NamesNext]_vars

\* the statistics getters against the strobe interrupt: the receiver as
\* initialize() leaves it, the queue drained, after 0, 255 or 65535 accepted
\* strobes
StatStarts == {0, 255, 65535}

StatsSpecInit ==
    /\ buffer = [i \in 0..(RING_BUFFER_SIZE - 1) |-> 0]
    /\ head = 0 /\ tail = 0 /\ count = 0 /\ overflowFlag = FALSE
    /\ initialized = TRUE /\ captureEnabled = TRUE
    /\ bytesReceived \in StatStarts /\ totalInterrupts = bytesReceived
    /\ overflowCount = 0
    /\ attached = TRUE /\ busyPin = FALSE /\ ackPin = TRUE
    /\ pc = "idle" /\ rbRet = "idle" /\ maxBytes = 0 /\ bytesRead = 0
    /\ dest = <<>> /\ tmpCount = 0
    /\ fifo = <<>> /\ dropped = 0 /\ strobes = 0 /\ served = 0 /\ lastStrobe = "none"
    /\ isrTrace = <<>> /\ drainExpect = <<>> /\ drainQuiet = TRUE
    /\ surfaced = 0 /\ latched = FALSE
    /\ FsConstructed
    /\ flash = Medium([i \in Slots |-> ErasedEntry])
    /\ RtConstructed
    /\ NamesConstructed
    /\ HarnessIdle
    /\ sdDetectPin = "HIGH" /\ sdWriteProtectPin = "LOW" /\ txRoom = TRUE

SpecStats == StatsSpecInit /\ [][StatsNext]_vars

\* the ring buffer test, everything else as constructed
CycleSpecInit == RxSpecInit

SpecCycle == CycleSpecInit /\ [][CycleNext]_vars



(***************************************************************************)
(* Filesystem claims                                                       *)
(***************************************************************************)
\* C4: when writeFile(name, F) returned |F| and the next call is
\* readFile(name, dst) with |dst| >= |F|, the read returns |F| and dst
\* holds F byte for byte.
C4_ReadReturnsWritten ==
    (lastWrite # NoWrite /\ lastRead # NoRead /\ lastRead.name = lastWrite.name) =>
        /\ lastRead.ret = Len(lastWrite.data)
        /\ lastRead.buf = lastWrite.data

C6_ActiveEntriesWellFormed ==
    eepromInitialized =>
        \A i \in Slots :
            IsActive(directory[i]) =>
                /\ directory[i].sizeBytes = Not32(directory[i].sizeComplement)
                /\ Val(directory[i].startSector) >= DATA_START_SECTOR
                /\ EndSector(directory[i]) <= TOTAL_SECTORS

\* the name held by an entry, lower-cased
LowerName(entry) ==
    [k \in 1..safeStrlen(entry.filename) |-> ToLower(entry.filename[k])]

\* C7: after a format followed only by writeFile (and readFile) calls, no
\* two ACTIVE entries carry the same name modulo case.
C7_NamesUniqueAfterWrites ==
    lineage = "format" =>
        \A i, j \in Slots :
            (i # j /\ IsActive(directory[i]) /\ IsActive(directory[j])) =>
                LowerName(directory[i]) # LowerName(directory[j])

\* C10: no page program of a writeFile call lands on a byte that has been
\* programmed and not erased since.
C10_ProgramsOnlyErasedCells ==
    ~flash.dirty


\* C11: when a page write of writeFile fails, the call returns 0, no slot
\* becomes ACTIVE, and the sectors it reserved are allocatable again (the
\* allocation pointer is back where the call found it).
C11_FailedWriteReleases ==
    eepromInitialized =>
        \A filename \in Names, data \in FileData, f \in Faults :
            LET r == writeFile(CurrentFs, filename, data, f) IN
            r.at = "write_failed" =>
                /\ r.ret = 0
                /\ \A i \in Slots : IsActive(r.st.dir[i]) => IsActive(directory[i])
                /\ r.st.next = nextFreeSector

\* C12: the entry of a successful writeFile carries the 32-bit NOT of its
\* size as complement, passes validateFileEntry, and is ACTIVE with the same
\* name, start and size in the directory the next mount loads.
C12_WrittenEntryPersists ==
    LET stored == SubSeq(lastWrite.name, 1,
                         Min(Len(lastWrite.name), MAX_FILENAME_LENGTH - 1))
        HoldsLastWrite(dir, i) ==
            /\ IsActive(dir[i])
            /\ [k \in 1..safeStrlen(dir[i].filename) |-> dir[i].filename[k]] = stored
            /\ dir[i].sizeBytes = U32(Len(lastWrite.data))
        remounted == loadDirectory(BeginCall(flash)).dir
    IN lastWrite # NoWrite =>
        \E i \in Slots :
            /\ HoldsLastWrite(directory, i)
            /\ directory[i].sizeComplement = Not32(directory[i].sizeBytes)
            /\ validateFileEntry(directory[i])
            /\ HoldsLastWrite(remounted, i)
            /\ remounted[i].startSector = directory[i].startSector

\* C13: for a name that has an ACTIVE file (names compared without regard
\* to case), deleteFile succeeds, the file no longer exists, totalFiles
\* drops by one and deletedFiles rises by one; a deleteFile of the same name
\* right after it returns false and changes nothing; and totalFiles never
\* wraps below zero.
C13_DeleteThenDeleteAgain ==
    LET HasActiveFile(dir, name) ==
            \E i \in Slots :
                /\ IsActive(dir[i])
                /\ LowerName(dir[i]) =
                     [k \in 1..Min(Len(name), MAX_FILENAME_LENGTH - 1) |-> ToLower(name[k])]
    IN eepromInitialized =>
        /\ totalFiles[1] = 0 /\ totalFiles[2] <= MAX_FILES
        /\ \A name \in Names :
             HasActiveFile(directory, name) =>
                 LET r1 == deleteFile(CurrentFs, name, 0)
                     r2 == deleteFile([r1.st EXCEPT !.m = BeginCall(EndCall(r1.st.m))],
                                      name, 0)
                 IN /\ r1.ret
                    /\ ~HasActiveFile(r1.st.dir, name)
                    /\ totalFiles # U32(0) /\ r1.st.total = U32Dec(totalFiles)
                    /\ r1.st.deleted = U32Inc(deletedFiles)
                    /\ ~r2.ret
                    /\ r2.st.dir = r1.st.dir
                    /\ r2.st.total = r1.st.total /\ r2.st.deleted = r1.st.deleted
                    /\ r2.st.m.dir = r1.st.m.dir


(***************************************************************************)
(* Capture, router and serial claims                                       *)
(***************************************************************************)
\* C14: with the flash plugin selected on a freshly formatted chip, once
\* three strobes have been accepted and the run loop has drained the queue,
\* the directory lists exactly one file, named "data_0001", of size 3, and
\* reading it returns 3 bytes.
C14_ThreeBytesOneFile ==
    LET data_0001 == <<100, 97, 116, 97, 95, 48, 48, 48, 49>>
        listed == {i \in Slots : IsActive(directory[i])}
    IN (strobes = 3 /\ served = 3 /\ dropped = 0 /\ count = 0 /\ fifo = <<>>
          /\ pc = "idle") =>
         /\ Cardinality(listed) = 1
         /\ \A i \in listed :
              /\ [k \in 1..safeStrlen(directory[i].filename) |-> directory[i].filename[k]]
                   = data_0001
              /\ directory[i].sizeBytes = U32(3)
         /\ readFile(CurrentFs, data_0001, 3).ret = 3

\* C15: an update() that runs while the selected backend is not ready (its
\* isReady() is false, or it is the card and the card has been pulled out)
\* and another backend is ready leaves the highest-priority ready backend
\* selected.
C15_UpdateFailsOver ==
    [][LET Ready(type) ==
               IF type = "STORAGE_SD_CARD" THEN sdIsReady /\ CardIn ELSE IsReady(type)
           best == IF Ready("STORAGE_SD_CARD") THEN "STORAGE_SD_CARD"
                   ELSE IF Ready("STORAGE_EEPROM") THEN "STORAGE_EEPROM"
                   ELSE "STORAGE_SERIAL"
       IN (/\ RouterUpdate
           /\ ~Ready(currentStorageType)
           /\ \E type \in StorageTypes : Ready(type))
          => currentStorageType' = best]_vars

\* C16: an update() that finds the selected backend ready leaves the
\* selection as it is, whichever other backends are ready.
C16_UpdateKeepsReadySelection ==
    [][(RouterUpdate /\ IsReady(currentStorageType))
         => currentStorageType' = currentStorageType]_vars

\* update() has just run with the flash plugin selected and ready while
\* the card, which has the higher priority, is ready too
C16_Witness ==
    /\ lastCall = "update"
    /\ currentStorageType = "STORAGE_EEPROM" /\ eepromInitialized
    /\ sdIsReady

\* C17: initialize() leaves selected the card if it is ready, else the
\* flash chip if it is ready, else the serial link if it is ready, else the
\* card.
C17_InitSelectsByPriority ==
    [][RouterInitialize =>
         /\ sdIsReady' => currentStorageType' = "STORAGE_SD_CARD"
         /\ (~sdIsReady' /\ eepromInitialized') => currentStorageType' = "STORAGE_EEPROM"
         /\ (~sdIsReady' /\ ~eepromInitialized' /\ serialIsReady')
              => currentStorageType' = "STORAGE_SERIAL"
         /\ (~sdIsReady' /\ ~eepromInitialized' /\ ~serialIsReady')
              => currentStorageType' = "STORAGE_SD_CARD"]_vars

\* initialize() has just run, the card is not ready and the flash chip,
\* which is, is selected
C17_Witness ==
    /\ lastCall = "initialize" /\ ~sdIsReady
    /\ eepromInitialized /\ currentStorageType = "STORAGE_EEPROM"

\* C18: the router never hands a plugin a name that fails validation.
C18_OnlyValidNamesDispatched ==
    ~invalidDispatched

\* C19: a copy between two ready plugins of a file the source holds, which
\* fits the transfer buffer and the destination, returns true, and the
\* destination then holds the same bytes under the name; on the serial link
\* they appear as BEGIN:name, SIZE:n, the hex digits, END:name.
C19_CopyDelivers ==
    LET name == lastCopy.name
        bytes == lastCopy.bytes
        stored == SubSeq(name, 1, Min(Len(name), MAX_FILENAME_LENGTH - 1))
        digits == [k \in 1..(2 * Len(bytes)) |-> byteToHex(bytes[(k + 1) \div 2])[2 - (k % 2)]]
    IN lastCopy # NoCopy =>
         /\ lastCopy.ret
         /\ lastCopy.dest = "STORAGE_SD_CARD" =>
              name \in DOMAIN sdFiles /\ sdFiles[name] = bytes
         /\ lastCopy.dest = "STORAGE_EEPROM" =>
              \E i \in Slots :
                  /\ IsActive(directory[i])
                  /\ [k \in 1..safeStrlen(directory[i].filename) |->
                         directory[i].filename[k]] = stored
                  /\ readData(flash, Val(directory[i].startSector) * EEPROM_SECTOR_SIZE,
                              Val(directory[i].sizeBytes)) = bytes
         /\ lastCopy.dest = "STORAGE_SERIAL" =>
              serialOut.lines = <<BEGIN_TAG \o name, SIZE_TAG \o Decimal(Len(bytes)),
                                  digits, END_TAG \o name>>

\* C20: receiveFile fed the lines streamFile emitted for a payload returns
\* that payload, and fed the line "DEAD BEEF" stores DE AD BE EF and
\* returns 4 (the buffer being large enough in both cases).
C20_HexRoundTrip ==
    /\ (received.of # <<>> /\ received.max >= Len(received.of)) =>
          /\ received.data = received.of
          /\ received.ret = Len(received.of)
    /\ (received.lines = <<DEAD_BEEF>> /\ received.max >= 4) =>
          /\ received.data = <<222, 173, 190, 239>>
          /\ received.ret = 4

(***************************************************************************)
(* Hex framing claims                                                      *)
(***************************************************************************)
\* C21: a transfer written to the serial link consists of BEGIN:name,
\* SIZE:n, the data lines and END:name in that order; the data lines carry
\* the n payload bytes in order, HEX_BYTES_PER_LINE to a line, as upper-case
\* hex pairs with one space after every 8 bytes inside a line; and the value
\* returned is n.
C21_WriteEmitsPayload ==
    LET of == serialOut.of
        n == Len(of)
        lines == serialOut.lines
        lineCount == (n + HEX_BYTES_PER_LINE - 1) \div HEX_BYTES_PER_LINE
        Chunk(k) == SubSeq(of, HEX_BYTES_PER_LINE * (k - 1) + 1,
                           Min(HEX_BYTES_PER_LINE * k, n))
        Digit(d) == IF d < 10 THEN 48 + d ELSE 55 + d
        Pair(b) == <<Digit(b \div 16), Digit(b % 16)>>
        Grouped(chunk) ==
            [p \in 1..(2 * Len(chunk) + (Len(chunk) - 1) \div 8) |->
                IF (p - 1) % 17 = 16 THEN 32
                ELSE Pair(chunk[8 * ((p - 1) \div 17) + ((p - 1) % 17) \div 2 + 1])
                         [(((p - 1) % 17) % 2) + 1]]
    IN serialOut # NoStream =>
         /\ Len(lines) = lineCount + 3
         /\ SubSeq(lines[1], 1, Len(BEGIN_TAG)) = BEGIN_TAG
         /\ lines[2] = SIZE_TAG \o Decimal(n)
         /\ \A k \in 1..lineCount :
              k + 2 <= Len(lines) => lines[k + 2] = Grouped(Chunk(k))
         /\ lines[Len(lines)]
              = END_TAG \o SubSeq(lines[1], Len(BEGIN_TAG) + 1, Len(lines[1]))
         /\ serialOut.ret = n

\* C22: when the lines waiting on the link hold an END: or ABORT: line,
\* receiveFile consumes nothing after the first such line and stores only
\* what the lines before it decode to.
C22_ReceiveStopsAtEnd ==
    LET lines == received.lines
        ABORT_TAG == <<65, 66, 79, 82, 84, 58>>
        Stops(line) == startsWith(line, END_TAG) \/ startsWith(line, ABORT_TAG)
    IN (received # NoReceive /\ \E k \in 1..Len(lines) : Stops(lines[k])) =>
         LET first == CHOOSE k \in 1..Len(lines) :
                          Stops(lines[k]) /\ \A j \in 1..(k - 1) : ~Stops(lines[j])
         IN /\ received.used <= first
            /\ received.data
                 = ReceiveLines(SubSeq(lines, 1, first - 1), 1, <<>>, received.max,
                                <<>>, FALSE).data

\* C23: the lines that start with BEGIN:, SIZE: or PROGRESS: add no byte to
\* what receiveFile stores: it stores what the other lines decode to.
C23_ReceiveIgnoresFraming ==
    LET lines == received.lines
        PROGRESS_TAG == <<80, 82, 79, 71, 82, 69, 83, 83, 58>>
        Ignored(line) == \/ startsWith(line, BEGIN_TAG)
                         \/ startsWith(line, SIZE_TAG)
                         \/ startsWith(line, PROGRESS_TAG)
        others == SelectSeq(lines, LAMBDA line : ~Ignored(line))
    IN (received # NoReceive /\ ~received.past) =>
         received.data = ReceiveLines(others, 1, <<>>, received.max, <<>>, FALSE).data

(***************************************************************************)
(* Naming and run-loop claims                                              *)
(***************************************************************************)
\* C24: the names the run loop has synthesized in one run are pairwise
\* distinct.
C24_GeneratedNamesDistinct ==
    \A i, j \in 1..Len(generatedNames) :
        i # j => generatedNames[i] # generatedNames[j]

\* C25: a run-loop tick whose component updates run with the receiver
\* initialized goes on to drain the receiver, whatever the other components'
\* update() returned.
C25_TickDrainsAfterUpdate ==
    [][(LoopUpdateAll /\ initialized) => pc' = "tick_drain"]_vars

(***************************************************************************)
(* Mount, allocation and repair claims (SpecFs)                            *)
(***************************************************************************)
\* C26 as stated: when the directory read at mount holds exactly one ACTIVE
\* slot (and no DELETED one) and its complement does not match, then after
\* mount the slot is DELETED in the mirror and on the medium, the active
\* count is 0, the deleted count is 1 and no slot is listed.
C26_MountDemotesOnMedium ==
    [][\A i \in Slots :
         LET OnlyBadActive ==
                 /\ flash.dir[i].status = STATUS_ACTIVE
                 /\ flash.dir[i].sizeBytes # Not32(flash.dir[i].sizeComplement)
                 /\ \A j \in Slots \ {i} :
                        flash.dir[j].status \notin {STATUS_ACTIVE, STATUS_DELETED}
         IN (Mount /\ OnlyBadActive) =>
                /\ directory'[i].status = STATUS_DELETED
                /\ flash'.dir[i].status = STATUS_DELETED
                /\ totalFiles' = U32(0) /\ deletedFiles' = U32(1)
                /\ \A j \in Slots : ~IsActive(directory'[j])]_vars

\* C26: when the directory read at mount holds exactly one ACTIVE slot (and
\* no DELETED one) and its complement does not match, then after mount the
\* slot is DELETED in the mirror while the medium still holds it as ACTIVE,
\* the active count is 0, the deleted count is 1 and no slot is listed.
C26_MountDemotesInMirror ==
    [][\A i \in Slots :
         LET OnlyBadActive ==
                 /\ flash.dir[i].status = STATUS_ACTIVE
                 /\ flash.dir[i].sizeBytes # Not32(flash.dir[i].sizeComplement)
                 /\ \A j \in Slots \ {i} :
                        flash.dir[j].status \notin {STATUS_ACTIVE, STATUS_DELETED}
         IN (Mount /\ OnlyBadActive) =>
                /\ directory'[i].status = STATUS_DELETED
                /\ flash'.dir[i] = flash.dir[i]
                /\ totalFiles' = U32(0) /\ deletedFiles' = U32(1)
                /\ \A j \in Slots : ~IsActive(directory'[j])]_vars

\* a mounted filesystem whose medium holds one ACTIVE slot with a wrong
\* complement, demoted in the mirror
C26_Witness ==
    /\ eepromInitialized /\ lineage = "loaded"
    /\ totalFiles = U32(0) /\ deletedFiles = U32(1)
    /\ \E i \in Slots :
          /\ flash.dir[i].status = STATUS_ACTIVE
          /\ flash.dir[i].sizeBytes # Not32(flash.dir[i].sizeComplement)
          /\ directory[i].status = STATUS_DELETED
          /\ \A j \in Slots \ {i} :
                 flash.dir[j].status \notin {STATUS_ACTIVE, STATUS_DELETED}

\* C27: mount changes only the in-RAM mirror: it issues no erase and no
\* page program, and the directory sector and the data sectors of the
\* medium are after mount what they were before it.
C27_MountLeavesMedium ==
    [][Mount => /\ loadDirectory(BeginCall(flash)).m.calls = 0
                /\ flash'.dir = flash.dir
                /\ flash'.data = flash.data]_vars

\* a mounted filesystem whose mirror differs from the directory sector: a
\* slot failed the check and was demoted in RAM only
C27_Witness ==
    /\ eepromInitialized /\ lineage = "loaded"
    /\ \E i \in Slots :
          /\ directory[i].status = STATUS_DELETED
          /\ flash.dir[i].status = STATUS_ACTIVE
          /\ ~validateFileEntry(flash.dir[i])

C29_FsckReportsRepair ==
    eepromInitialized =>
        LET r == fsck(CurrentFs, 0)
            Bad(i) == IsActive(directory[i]) /\ ~validateFileEntry(directory[i])
        IN (\E i \in Slots : Bad(i)) =>
               /\ r.ret = TRUE
               /\ \A i \in Slots :
                      Bad(i) => /\ r.st.dir[i].status = STATUS_DELETED
                                /\ r.st.m.dir[i].status = STATUS_DELETED

\* C30: when a page program or a sector erase of writeFile times out, the
\* call returns 0 and the timed-out command is the last flash command of
\* the call: no erase is issued while the failure is handled.
C30_TimeoutIssuesNoErase ==
    eepromInitialized =>
        \A filename \in Names, data \in FileData, f \in 1..(MAX_FILES + 1) :
            LET r == writeFile(CurrentFs, filename, data, f)
            IN r.at \in {"write_failed", "save_failed"} =>
                   /\ r.ret = 0
                   /\ r.st.m.calls = f

(***************************************************************************)
(* Directory bookkeeping and durability claims (SpecFs)                    *)
(***************************************************************************)
\* C37: while the filesystem is mounted, totalFiles is the number of
\* mirror slots whose status is ACTIVE and deletedFiles is the number of
\* mirror slots whose status is DELETED.
C37_CountsMatchMirror ==
    eepromInitialized =>
        /\ totalFiles = U32(Cardinality({i \in Slots : directory[i].status = STATUS_ACTIVE}))
        /\ deletedFiles = U32(Cardinality({i \in Slots : directory[i].status = STATUS_DELETED}))

\* C38: a writeFile that returns 0 and a deleteFile that returns false leave
\* the mirror as it was: no slot has changed status and totalFiles and
\* deletedFiles are unchanged.
C38_FailedCallKeepsMirror ==
    eepromInitialized =>
        \A filename \in Names, f \in 0..(MAX_FILES + 1) :
            LET SameMirror(st) ==
                    /\ \A i \in Slots : st.dir[i].status = directory[i].status
                    /\ st.total = totalFiles
                    /\ st.deleted = deletedFiles
                d == deleteFile(CurrentFs, filename, f)
            IN /\ (~d.ret) => SameMirror(d.st)
               /\ \A data \in FileData :
                      LET w == writeFile(CurrentFs, filename, data, f)
                      IN w.ret = 0 => SameMirror(w.st)

\* C39: power is lost while deleteFile persists the directory, after k of
\* its flash commands (the erase of sector 0, then the slot pages) have
\* completed.  The medium is then deleteFile's medium with command k + 1
\* the one that never completes.  Every complement-valid ACTIVE slot of the
\* medium other than the one being deleted is found unchanged by the next
\* mount.
C39_PowerLossKeepsOtherFiles ==
    eepromInitialized =>
        \A filename \in Names, f \in 1..(MAX_FILES + 1) :
            LET k == findFileEntry(directory, filename)
                cut == deleteFile(CurrentFs, filename, f).st.m
                remount == loadDirectory(BeginCall(cut))
            IN k # 0 =>
                   \A i \in Slots \ {k} :
                       (IsValidActive(flash.dir[i]) /\ directory[i] = flash.dir[i])
                           => remount.dir[i] = flash.dir[i]

C34_SelectIdempotent ==
    \A k \in StorageTypes :
        LET once == setStorageTypeResult(k, currentStorageType)
            twice == setStorageTypeResult(k, once.type)
        IN /\ twice = once
           /\ (~IsReady(k)) => (~once.ok /\ once.type = currentStorageType)

\* the operator has selected the serial link although the card is ready,
\* and the flash chip is a kind that is not ready
C34_Witness ==
    /\ fsmInitialized /\ lastCall = "other"
    /\ currentStorageType = "STORAGE_SERIAL"
    /\ sdIsReady /\ serialIsReady /\ ~eepromInitialized

(***************************************************************************)
(* Receive buffer claim (SpecHex)                                          *)
(***************************************************************************)
\* C40: receiveFile decodes a line from its own characters only, never from
\* line-buffer positions at or behind the line's terminator, and stores no
\* more than maxSize bytes.
C40_ReceiveStaysInLine ==
    received # NoReceive =>
        /\ ~received.past
        /\ Len(received.data) <= received.max

validate == initialized

\* ParallelPortManager::getStatus, lines 75-89: the first test
getStatus == IF ~initialized THEN "STATUS_NOT_INITIALIZED" ELSE "STATUS_OK"

\* C36: when reset() returns STATUS_OK the component is no longer
\* initialized: validate() is false, getStatus() is STATUS_NOT_INITIALIZED
\* and the counters are zero.
C36_ResetLeavesUninitialized ==
    [][(pc = "reset_attached" /\ InitializeFinish)
          => /\ ~validate'
             /\ getStatus' = "STATUS_NOT_INITIALIZED"
             /\ bytesReceived' = 0 /\ overflowCount' = 0 /\ totalInterrupts' = 0]_vars

\* C33: every value of bytes_total, overflows and interrupts_total the run
\* loop reads is a value the counter held at some moment of the read, also
\* when strobe interrupts run during the read.
C33_SnapshotsAreAtomic ==
    snResult # NoSnapshot =>
        snResult.value \in snResult.first..snResult.last

\* the state of the test between two cycles (lines 422-424)
CycleEnded == cyPhase \in {"write", "done"} /\ cyI = 0 /\ cycle >= 1

====
